---- MODULE Spec2Model ----
(***************************************************************************)
(* Verification model of the economic-dashboard acquisition pipeline:      *)
(* the sliding-window RateLimiter and the retrying upstream client of      *)
(* app/services/fred_service.py, the cache-aside reads of the same file,   *)
(* the upsert writers (fred_service.py, scripts/backfill_metrics.py) and   *)
(* the incremental sync of app/services/incremental_update_service.py.     *)
(*                                                                         *)
(* Time is counted in whole seconds (one Tick = one second).  A request    *)
(* timestamp is kept as its age, now - req_time, saturating at the window  *)
(* length: every test the code makes on a timestamp is a test of its age.  *)
(***************************************************************************)
EXTENDS Integers, Sequences, FiniteSets, TLC

(* ------------------------------ bounds -------------------------------- *)

\* RateLimiter(max_requests, window_seconds), scaled down from 120 / 60
MaxRequests == 2
WindowSeconds == 3
\* max_retries of _make_request_with_retry, scaled down from 3
MaxRetries == 2

\* the current day, the age in days of an observation older than a year,
\* the number of most recent days that carry observations, the largest value
Today == 1000
\* the longest data_points list handed to _store_data_points
MaxBatch == 2
\* the longest "observations" array and the longest value string of a payload
MaxObs == 2
MaxStrLen == 2
\* the last tick of the clock that stamps fetched_at
MaxClock == 1
\* days_to_check of check_data_gaps, scaled down from 30, and how many days
\* back the stored dates of a metric reach
DaysToCheck == 4
GapSpan == 6
\* the last day of the clock of the freshness check
MaxFreshClock == 8
\* the longest history given to assess_significance
MaxHist == 5
\* batch_size of backfill_metric, scaled down from 50, and the longest list
\* of data points it is given
BatchSize == 2
MaxBackfill == 3
\* the longest history given to generate_alerts
MaxAlertHist == 2
\* the most points in the history given to calculate_changes
MaxChangeHist == 2
OldDays == 400
MaxRecent == 1
MaxValue == 2

\* the concurrent callers of the upstream client: one can hold the limiter's
\* lock while the other waits for it
Procs == {1, 2}
NoProc == 0
NoStatus == 0 - 1

(* ------------------------- program constants -------------------------- *)

\* the "+ 0.1" buffer of the limiter's sleep, rounded up to one tick
SleepBuffer == 1
\* timedelta(days=7) of check_metric_freshness
StaleDays == 7
\* timedelta(days=365): the window of a sync that finds no stored row
YearDays == 365

(* ---------------------------- variables ------------------------------- *)

VARIABLES
    requests,     \* RateLimiter.requests: ages of the recorded timestamps, oldest first
    lockOwner,    \* RateLimiter._lock: the caller inside "async with", or NoProc
    pc,           \* position of each caller in _make_request_with_retry / acquire
    attempt,      \* loop variable "attempt" of each caller
    sleepLeft,    \* seconds left of the caller's current asyncio.sleep
    httpCount,    \* HTTP requests this call has issued (client.get calls)
    only500,      \* every response this call has received so far was HTTP 500
    lastResp,     \* the response of the call's latest HTTP attempt
    result,       \* how the call ended: data returned or FREDAPIError raised
    recent,       \* ages of all completed acquisitions younger than the window
    acqCount,     \* acquire() calls this call has completed
    onlyTransient \* every outcome of this call so far was a 5xx, a 429 or a timeout

rlVars == <<requests, lockOwner, pc, attempt, sleepLeft, httpCount, only500,
            lastResp, result, recent, acqCount, onlyTransient>>

VARIABLES
    metricRows,   \* table metric_data_points: rows [code, date, value, source, n]
    syncPc,       \* position of each update_metric_since_last call
    syncCode,     \* its metric_code
    syncLast,     \* its last_date
    syncIn,       \* what the call was given: the fetch outcome and whether the commit worked
    syncResult    \* the dict the call returned, or that it raised

storeVars == <<metricRows, syncPc, syncCode, syncLast, syncIn, syncResult>>

VARIABLES
    fredRows,     \* table fred_data_points: rows [series_id, date, value, fetched_at, n]
    lastBatch,    \* the data_points list of the latest _store_data_points call
    lastCount,    \* the stored_count it returned
    repeated      \* TRUE iff that call was given lastBatch again (<<>> before any call)

upsertVars == <<fredRows, lastBatch, lastCount, repeated>>

VARIABLES
    payload,      \* the "observations" array of an upstream response
    parsed,       \* processed_data: what fetch_historical makes of it
    parsePc       \* "input" before the processing loop has run, "done" after

parseVars == <<payload, parsed, parsePc>>

VARIABLES
    redis,        \* TRUE iff the service was constructed with a cache client
    cache,        \* the cache backend: key -> entry, or NoEntry
    clock,        \* datetime.now(timezone.utc), in ticks
    readReq,      \* the read: its arguments, and fetched_at
    readResult,   \* the read: what it returned or raised
    readDirect,   \* the read: what the upstream has answered it, or after a hit
                  \* what the upstream fetch alone yields then
    readHit,      \* the read: the cache entry it returned, or NoEntry
    readFailed,   \* the read: the cache operations that raised RedisError
    readOps,      \* the read: what it did outside itself, among a cache
                  \* "get", a cache "setex", a limiter "acquire", an "http" request
    readPc,       \* where the read is: "idle", "upstream" (awaiting the answer of
                  \* a request), "store" (before _set_cache), "done"
    readLeft      \* the upstream requests the read has still to await

cacheVars == <<redis, cache, clock, readReq, readResult, readDirect, readHit, readFailed,
               readOps, readPc, readLeft>>

VARIABLES
    allIdx,       \* update_all_metrics: 0 when not running, else the index of the
                  \* config the loop is at (past the last: returning, one more: raised)
    allResults,   \* its dict "results": code -> the entry, NoSyncResult while absent
    allLast       \* last_date of the turn that is under way, NoDate between the turns

allVars == <<allIdx, allResults, allLast>>

VARIABLES
    inv           \* the _invalidate_cache_pattern call under way: who called it,
                  \* the series_id ("" for None), the keys the scan has still to
                  \* yield, the count, the keys really removed, whether redis
                  \* answered; NoInv once the caller has taken the count

invVars == <<inv>>

VARIABLES
    gapDates,     \* check_data_gaps: the days stored for the metric
    gapTod,       \* the time of day of datetime.now(): 0 midnight, 1 later
    gapOut,       \* the dict it returned
    gapPc         \* "input" before the call, "done" after

gapVars == <<gapDates, gapTod, gapOut, gapPc>>

VARIABLES
    freshRows,    \* check_metric_freshness: the rows of the metric, each with
                  \* its date, created_at and updated_at
    freshNow,     \* the clock, in days
    freshWritten, \* when the metric was last written, -1 before any write
    freshOut,     \* the dict the check returned
    freshPc       \* "idle", or "checked" between a check and its return

freshVars == <<freshRows, freshNow, freshWritten, freshOut, freshPc>>

VARIABLES
    sigHist,      \* assess_significance: the values of the historical points
    sigCurrent,   \* the current value
    sigOut,       \* the dict it returned; percentile in tenths
    sigPc         \* "input" before the call, "done" after

sigVars == <<sigHist, sigCurrent, sigOut, sigPc>>

VARIABLES
    instRequests, \* per FREDService instance: the requests list of its RateLimiter
    instAsleep,   \* per instance: a caller sleeps inside acquire, holding the lock
    dispatched    \* the ages of the HTTP requests the process has sent, the
                  \* ones younger than the window

multiVars == <<instRequests, instAsleep, dispatched>>

VARIABLES
    bfData,       \* backfill_metric: data_points, the list fetch_historical returned
    bfDone,       \* the batches it has committed
    bfPc,         \* "idle", "running", "failed" (raised), "cancelled", "done"
    bfStart       \* the rows of the table when it started

bfVars == <<bfData, bfDone, bfPc, bfStart>>

VARIABLES
    pairPc,       \* two overlapping update_metric_since_last("DFF"): "idle", "fetch", "done"
    pairLast,     \* the last_date each of them read
    pairIn,       \* what each was handed by fetch_historical and by its commit
    pairResult    \* the dict each returned, or that it raised

pairVars == <<pairPc, pairLast, pairIn, pairResult>>

VARIABLES
    alertIn,      \* generate_alerts: current, the historical values, changes["vs_yesterday"],
                  \* the answer of _detect_trend_reversal and the significance dict
    alertOut,     \* the alerts it returned, by kind
    alertPc       \* "input" before the call, "done" after it

alertVars == <<alertIn, alertOut, alertPc>>

VARIABLES
    changeIn,     \* calculate_changes: current and historical (current_date is ChangeDay)
    changeOut,    \* the changes dict it returned, in hundredths of a percent
    changePc      \* "input" before the call, "done" after it

changeVars == <<changeIn, changeOut, changePc>>

VARIABLES
    refreshPc,       \* refresh_metric: "idle", "upstream" (awaiting the request of
                     \* fetch_historical), "store" (before _set_cache), "write"
    refreshCode,     \* its metric_code
    refreshUseCache, \* use_cache = not request.force
    refreshData      \* result["data"], once fetch_historical has it

refreshVars == <<refreshPc, refreshCode, refreshUseCache, refreshData>>

\* the variables of the components further down
moreVars == <<allVars, invVars, gapVars, freshVars, sigVars,
             multiVars, bfVars, pairVars, alertVars, changeVars, refreshVars>>

vars == <<rlVars, storeVars, upsertVars, parseVars, cacheVars, moreVars>>

\* what the actions of one component leave alone
notRL == <<storeVars, upsertVars, parseVars, cacheVars, moreVars>>
notStore == <<rlVars, upsertVars, parseVars, cacheVars, moreVars>>
notUpsert == <<rlVars, storeVars, parseVars, cacheVars, moreVars>>
notParse == <<rlVars, storeVars, upsertVars, cacheVars, moreVars>>
notCache == <<rlVars, storeVars, upsertVars, parseVars, moreVars>>
syncTaskVars == <<syncPc, syncCode, syncLast, syncIn, syncResult>>
notSyncAll == <<rlVars, syncTaskVars, upsertVars, parseVars, cacheVars, invVars, gapVars,
                freshVars, sigVars,
    multiVars,
    bfVars,
    pairVars,
    alertVars,
    changeVars,
    refreshVars>>
notInvalidate == <<rlVars, storeVars, upsertVars, parseVars, allVars, gapVars, freshVars,
                   sigVars,
                   redis, clock, readReq, readResult, readDirect, readHit, readFailed,
                   readOps, readPc, readLeft,
    multiVars,
    bfVars,
    pairVars,
    alertVars,
    changeVars,
    refreshVars>>
notGap == <<rlVars, storeVars, upsertVars, parseVars, cacheVars, allVars, invVars, freshVars,
            sigVars,
    multiVars,
    bfVars,
    pairVars,
    alertVars,
    changeVars,
    refreshVars>>
notFresh == <<rlVars, storeVars, upsertVars, parseVars, cacheVars, allVars, invVars, gapVars,
              sigVars,
    multiVars,
    bfVars,
    pairVars,
    alertVars,
    changeVars,
    refreshVars>>
notSig == <<rlVars, storeVars, upsertVars, parseVars, cacheVars, allVars, invVars, gapVars,
            freshVars,
    multiVars,
    bfVars,
    pairVars,
    alertVars,
    changeVars,
    refreshVars>>
notMulti == <<rlVars, storeVars, upsertVars, parseVars, cacheVars,
    allVars, invVars, gapVars, freshVars, sigVars,
    bfVars,
    pairVars,
    alertVars,
    changeVars,
    refreshVars>>
notBackfillRun == <<rlVars, syncTaskVars, upsertVars, parseVars, cacheVars,
    allVars, invVars, gapVars, freshVars, sigVars, multiVars,
    pairVars,
    alertVars,
    changeVars,
    refreshVars>>
notPairRun == <<rlVars, syncTaskVars, upsertVars, parseVars, cacheVars,
    allVars, invVars, gapVars, freshVars, sigVars, multiVars, bfVars,
    alertVars,
    changeVars,
    refreshVars>>
notAlert == <<rlVars, storeVars, upsertVars, parseVars, cacheVars,
    allVars, invVars, gapVars, freshVars, sigVars, multiVars, bfVars, pairVars,
    changeVars,
    refreshVars>>
notChange == <<rlVars, storeVars, upsertVars, parseVars, cacheVars,
    allVars, invVars, gapVars, freshVars, sigVars, multiVars, bfVars, pairVars, alertVars,
    refreshVars>>
notCacheWrite == <<rlVars, storeVars, upsertVars, parseVars,
    allVars, gapVars, freshVars, sigVars, multiVars, bfVars, pairVars, alertVars,
    changeVars, refreshVars>>
notRefreshRun == <<rlVars, syncTaskVars, upsertVars, parseVars,
    redis, clock, readReq, readResult, readDirect, readHit, readFailed, readOps, readPc,
    readLeft,
    allVars, gapVars, freshVars, sigVars, multiVars, bfVars, pairVars, alertVars,
    changeVars>>

(* ------------------------- helper operators --------------------------- *)

Min(a, b) == IF a < b THEN a ELSE b
Max(a, b) == IF a > b THEN a ELSE b

RECURSIVE Pow2(_)
Pow2(n) == IF n = 0 THEN 1 ELSE 2 * Pow2(n - 1)

RECURSIVE SelectSeqBy(_, _)
\* list comprehension [x for x in s if keep[x]] over a sequence of ages
SelectSeqBy(s, limit) ==
    IF s = <<>> THEN <<>>
    ELSE IF Head(s) < limit THEN <<Head(s)>> \o SelectSeqBy(Tail(s), limit)
         ELSE SelectSeqBy(Tail(s), limit)

RECURSIVE SeqsUpTo(_, _)
\* the sequences over S of length at most n
SeqsUpTo(S, n) ==
    IF n = 0 THEN {<<>>}
    ELSE SeqsUpTo(S, n - 1) \cup
         {Append(q, x) : q \in {r \in SeqsUpTo(S, n - 1) : Len(r) = n - 1}, x \in S}

(* --------------------------- RateLimiter ------------------------------ *)

\* self.requests = [t for t in self.requests if now - t < self.window_seconds]
Prune(reqs) == SelectSeqBy(reqs, WindowSeconds)

AtLimitOffByOne(reqs) == Len(reqs) > MaxRequests
\* if len(self.requests) >= self.max_requests
AtLimit(reqs) == Len(reqs) >= MaxRequests

\* sleep_time = window_seconds - (now - oldest_request) + 0.1
LimiterSleepTime(reqs) == WindowSeconds - Head(reqs) + SleepBuffer

(* --------------------------- upstream client -------------------------- *)

\* What one client.get can produce: an HTTP response (status, body kind),
\* httpx.TimeoutException, or another httpx.HTTPError.
Responses ==
    {[kind |-> "response", status |-> s, body |-> "data"] : s \in {200, 204, 404, 429, 500}}
    \cup {[kind |-> "response", status |-> 200, body |-> b] : b \in {"error_code", "invalid_json"}}
    \cup {[kind |-> k, status |-> NoStatus, body |-> "none"] : k \in {"timeout", "http_error"}}

NoResp == [kind |-> "none", status |-> NoStatus, body |-> "none"]
NoResult == [kind |-> "none", status |-> NoStatus]

ShouldRetryOffByOne(a) == a < MaxRetries - 1
\* if attempt < max_retries
ShouldRetry(a) == a < MaxRetries

IsRetryableStatusAll4xx(s) == s = 429 \/ (400 <= s /\ s < 600)
\* status 429 and 5xx are the retried statuses (lines 336 and 352)
IsRetryableStatus(s) == s = 429 \/ (500 <= s /\ s < 600)

\* sleep_time = (2 ** attempt) + 1
BackoffSleepTime(a) == Pow2(a) + 1

NextAttemptPcSkipsAcquire == "http"
\* "continue": the next iteration of the for loop starts at
\* "await self.rate_limiter.acquire()"
NextAttemptPc == "acquire"

\* the outcomes that are retried as transient: a 5xx, a 429, a timeout
IsTransient(r) ==
    \/ r.kind = "timeout"
    \/ r.kind = "response" /\ IsRetryableStatus(r.status)

\* The body of one loop iteration after client.get: what the call does with
\* the response.  next is "retry" (sleep, continue), "raise" or "return".
HandleResponse(r, a) ==
    IF r.kind = "timeout" THEN
        IF ShouldRetry(a) THEN [next |-> "retry", status |-> NoStatus]
        ELSE [next |-> "raise", status |-> 408]
    ELSE IF r.kind = "http_error" THEN
        IF ShouldRetry(a) THEN [next |-> "retry", status |-> NoStatus]
        ELSE [next |-> "raise", status |-> NoStatus]
    ELSE IF IsRetryableStatus(r.status) THEN
        IF ShouldRetry(a) THEN [next |-> "retry", status |-> NoStatus]
        ELSE [next |-> "raise", status |-> r.status]
    ELSE IF 400 <= r.status /\ r.status < 500 THEN
        [next |-> "raise", status |-> r.status]
    ELSE IF r.status # 200 THEN
        [next |-> "raise", status |-> r.status]
    ELSE IF r.body = "invalid_json" THEN
        [next |-> "raise", status |-> NoStatus]
    ELSE IF r.body = "error_code" THEN
        [next |-> "raise", status |-> r.status]
    ELSE [next |-> "return", status |-> r.status]

(* ------------------------------ actions ------------------------------- *)

RLInit ==
    /\ requests = <<>>
    /\ lockOwner = NoProc
    /\ pc = [p \in Procs |-> "idle"]
    /\ attempt = [p \in Procs |-> 0]
    /\ sleepLeft = [p \in Procs |-> 0]
    /\ httpCount = [p \in Procs |-> 0]
    /\ only500 = [p \in Procs |-> TRUE]
    /\ acqCount = [p \in Procs |-> 0]
    /\ onlyTransient = [p \in Procs |-> TRUE]
    /\ lastResp = [p \in Procs |-> NoResp]
    /\ result = [p \in Procs |-> NoResult]
    /\ recent = <<>>

\* A caller enters _make_request_with_retry: "for attempt in range(max_retries + 1)"
StartCall(p) ==
    /\ pc[p] = "idle"
    /\ pc' = [pc EXCEPT ![p] = "acquire"]
    /\ UNCHANGED <<requests, lockOwner, attempt, sleepLeft, httpCount, only500,
                   lastResp, result, recent, acqCount, onlyTransient>>
    /\ UNCHANGED notRL

\* RateLimiter.acquire from "async with self._lock" on.  asyncio.Lock is not
\* re-entrant: the caller proceeds only when nobody holds the lock, also when
\* the call is the recursive one made from inside the locked block.
Acquire(p) ==
    /\ pc[p] \in {"acquire", "rl_retry"}
    /\ lockOwner = NoProc
    /\ LET pruned == Prune(requests) IN
         IF AtLimit(pruned)
         THEN \* sleeps inside the locked block
              /\ requests' = pruned
              /\ lockOwner' = p
              /\ sleepLeft' = [sleepLeft EXCEPT ![p] = LimiterSleepTime(pruned)]
              /\ pc' = [pc EXCEPT ![p] = "rl_sleep"]
              /\ UNCHANGED <<recent, acqCount>>
         ELSE \* self.requests.append(now); the lock is released on exit
              /\ requests' = Append(pruned, 0)
              /\ recent' = Append(recent, 0)
              /\ acqCount' = [acqCount EXCEPT ![p] = @ + 1]
              /\ pc' = [pc EXCEPT ![p] = "http"]
              /\ UNCHANGED <<lockOwner, sleepLeft>>
    /\ UNCHANGED <<attempt, httpCount, only500, lastResp, result, onlyTransient>>
    /\ UNCHANGED notRL

\* await asyncio.sleep(sleep_time) is over: "return await self.acquire()"
LimiterWake(p) ==
    /\ pc[p] = "rl_sleep"
    /\ sleepLeft[p] = 0
    /\ pc' = [pc EXCEPT ![p] = "rl_retry"]
    /\ UNCHANGED <<requests, lockOwner, attempt, sleepLeft, httpCount, only500,
                   lastResp, result, recent, acqCount, onlyTransient>>
    /\ UNCHANGED notRL

\* response = await self.client.get(...) and the handling of its outcome
HttpAttempt(p) ==
    /\ pc[p] = "http"
    /\ \E r \in Responses :
         LET h == HandleResponse(r, attempt[p]) IN
           /\ httpCount' = [httpCount EXCEPT ![p] = @ + 1]
           /\ lastResp' = [lastResp EXCEPT ![p] = r]
           /\ only500' = [only500 EXCEPT ![p] = @ /\ r.kind = "response" /\ r.status = 500]
           /\ onlyTransient' = [onlyTransient EXCEPT ![p] = @ /\ IsTransient(r)]
           /\ IF h.next = "retry"
              THEN /\ pc' = [pc EXCEPT ![p] = "backoff"]
                   /\ sleepLeft' = [sleepLeft EXCEPT ![p] = BackoffSleepTime(attempt[p])]
                   /\ UNCHANGED result
              ELSE IF h.next = "raise"
              THEN /\ pc' = [pc EXCEPT ![p] = "failed"]
                   /\ result' = [result EXCEPT ![p] = [kind |-> "error", status |-> h.status]]
                   /\ UNCHANGED sleepLeft
              ELSE /\ pc' = [pc EXCEPT ![p] = "returned"]
                   /\ result' = [result EXCEPT ![p] = [kind |-> "data", status |-> h.status]]
                   /\ UNCHANGED sleepLeft
    /\ UNCHANGED <<requests, lockOwner, attempt, recent, acqCount>>
    /\ UNCHANGED notRL

\* the backoff sleep is over: "continue" to the next iteration of the for
\* loop, or fall out of it ("Maximum retries exceeded") when it is exhausted
BackoffDone(p) ==
    /\ pc[p] = "backoff"
    /\ sleepLeft[p] = 0
    /\ attempt' = [attempt EXCEPT ![p] = @ + 1]
    /\ IF attempt[p] + 1 < MaxRetries + 1
       THEN /\ pc' = [pc EXCEPT ![p] = NextAttemptPc]
            /\ UNCHANGED result
       ELSE /\ pc' = [pc EXCEPT ![p] = "failed"]
            /\ result' = [result EXCEPT ![p] = [kind |-> "error", status |-> NoStatus]]
    /\ UNCHANGED <<requests, lockOwner, sleepLeft, httpCount, only500, lastResp, recent,
                   acqCount, onlyTransient>>
    /\ UNCHANGED notRL

\* the caller has taken the returned data or the raised error; the call's
\* locals are gone and the caller is free to call again
Finish(p) ==
    /\ pc[p] \in {"returned", "failed"}
    /\ pc' = [pc EXCEPT ![p] = "idle"]
    /\ attempt' = [attempt EXCEPT ![p] = 0]
    /\ httpCount' = [httpCount EXCEPT ![p] = 0]
    /\ only500' = [only500 EXCEPT ![p] = TRUE]
    /\ acqCount' = [acqCount EXCEPT ![p] = 0]
    /\ onlyTransient' = [onlyTransient EXCEPT ![p] = TRUE]
    /\ lastResp' = [lastResp EXCEPT ![p] = NoResp]
    /\ result' = [result EXCEPT ![p] = NoResult]
    /\ UNCHANGED <<requests, lockOwner, sleepLeft, recent>>
    /\ UNCHANGED notRL

\* one second passes: every timestamp ages, every sleeper gets closer to waking
Tick ==
    /\ requests' = [i \in 1..Len(requests) |-> Min(requests[i] + 1, WindowSeconds)]
    /\ recent' = SelectSeqBy([i \in 1..Len(recent) |-> recent[i] + 1], WindowSeconds)
    /\ sleepLeft' = [p \in Procs |-> Max(sleepLeft[p] - 1, 0)]
    /\ UNCHANGED <<lockOwner, pc, attempt, httpCount, only500, lastResp, result,
                   acqCount, onlyTransient>>
    /\ UNCHANGED notRL

ProcStep(p) ==
    \/ StartCall(p)
    \/ Acquire(p)
    \/ LimiterWake(p)
    \/ HttpAttempt(p)
    \/ BackoffDone(p)
    \/ Finish(p)

RLNext ==
    \/ \E p \in Procs : ProcStep(p)
    \/ Tick

(* ------------------------------ the store ----------------------------- *)

\* A date is a day number.  A datetime is [t, aware]: t counts half days
\* (2 * day is midnight of the day, 2 * day + 1 a later time of that day) and
\* aware says whether the value carries a tzinfo.
Midnight(day, aware) == [t |-> 2 * day, aware |-> aware]

\* datetime.strptime(point["date"], "%Y-%m-%d"): a naive midnight
Strptime(day) == Midnight(day, FALSE)

\* datetime.now() - timedelta(days=365), tod being now's time of day (0: midnight)
NowMinusYear(tod) == [t |-> 2 * Today + tod - 2 * YearDays, aware |-> FALSE]

NoDate == [t |-> 0 - 1, aware |-> FALSE]

\* the days an observation can be dated: older than a year, exactly a year
\* ago, and the most recent days
ObsDays == {Today - OldDays, Today - YearDays} \cup ((Today - MaxRecent)..Today)
Values == 1..MaxValue
NoObs == 0
\* start_date / end_date: None, or a day
NoDay == 0

\* METRICS_CONFIG lists the series to sync; SERIES_METADATA the ones the
\* upstream client accepts
ConfiguredSeries == {"DFF", "GDP"}
KnownSeries == {"DFF"}
Tasks == {1}

\* the "data" list of fetch_historical for the observations the upstream
\* publishes (up[d]: the value published for day d, NoObs: none)
DataOf(up) == {[date |-> d, value |-> up[d]] : d \in {x \in ObsDays : up[x] # NoObs}}

\* every list the upstream can answer with: at most one observation per day
Payloads == {DataOf(up) : up \in [ObsDays -> Values \cup {NoObs}]}

RowsOf(rows, c) == {r \in rows : r.code = c}
SetMax(S) == CHOOSE x \in S : \A y \in S : y <= x

\* _get_last_date: select date ... where metric_code = :code order by date
\* desc limit 1.  The column is DateTime(timezone=True): the driver hands
\* back an aware datetime.  When the select raises (~selectOk) the except
\* block returns None, as for a series with no rows.
GetLastDate(rows, c, selectOk) ==
    IF ~selectOk \/ RowsOf(rows, c) = {} THEN NoDate
    ELSE Midnight(SetMax({r.date : r \in RowsOf(rows, c)}), TRUE)

\* last_date of update_metric_since_last: what _get_last_date returned, or
\* datetime.now() - timedelta(days=365) when that is None
LastDate(rows, c, tod, selectOk) ==
    IF GetLastDate(rows, c, selectOk) = NoDate THEN NowMinusYear(tod)
    ELSE GetLastDate(rows, c, selectOk)

\* a > b on datetimes raises TypeError when exactly one of them is aware
Comparable(a, b) == a.aware = b.aware

IsNewGte(day, last) == Strptime(day).t >= last.t
\* datetime.strptime(point["date"], "%Y-%m-%d") > last_date
IsNew(day, last) == Strptime(day).t > last.t

\* new_data = [point for point in all_data if ... > last_date]
NewData(data, last) == {o \in data : IsNew(o.date, last)}

HasConflictNever(rows, c, d) == FALSE
\* the unique constraint uix_metric_date on (metric_code, date)
HasConflict(rows, c, d) == \E r \in rows : r.code = c /\ r.date = d

NewRow(rows, c, o, src) ==
    [code |-> c, date |-> o.date, value |-> o.value, source |-> src,
     n |-> Cardinality({r \in rows : r.code = c /\ r.date = o.date}) + 1]

\* self.db.add(dp) for every point, then commit: plain INSERTs in one
\* transaction, which fails as a whole on a unique violation
InsertAll(rows, c, new) ==
    IF \E o \in new : HasConflict(rows, c, o.date)
    THEN [ok |-> FALSE, rows |-> rows]
    ELSE [ok |-> TRUE, rows |-> rows \cup {NewRow(rows, c, o, "FRED") : o \in new}]

NoIn == [fetch |-> "none", data |-> {}, commitOk |-> TRUE]
NoSyncResult == [status |-> "none", count |-> 0]
ErrorResult == [status |-> "error", count |-> 0]

\* update_metric_since_last from the fetch result on: what it returns and
\* what the table holds afterwards
SyncOutcome(rows, c, last, in) ==
    IF in.fetch = "error" THEN [result |-> ErrorResult, rows |-> rows]
    ELSE IF in.data = {} THEN [result |-> ErrorResult, rows |-> rows]
    ELSE IF ~Comparable(Strptime(Today), last) THEN [result |-> ErrorResult, rows |-> rows]
    ELSE LET new == NewData(in.data, last)
             ins == InsertAll(rows, c, new) IN
         IF new = {} THEN [result |-> [status |-> "success", count |-> 0], rows |-> rows]
         ELSE IF ins.ok /\ in.commitOk
              THEN [result |-> [status |-> "success", count |-> Cardinality(new)],
                    rows |-> ins.rows]
              ELSE [result |-> ErrorResult, rows |-> rows]

\* TRUE iff update_metric_since_last ends in its "except Exception" block:
\* fetch_historical raised, the date comparison raised, or the commit did
SyncRaised(rows, c, last, in) ==
    \/ in.fetch = "error"
    \/ /\ in.data # {}
       /\ \/ ~Comparable(Strptime(Today), last)
          \/ /\ NewData(in.data, last) # {}
             /\ ~(InsertAll(rows, c, NewData(in.data, last)).ok /\ in.commitOk)

\* the call raised instead of returning a dict
RaisedSyncResult == [status |-> "raised", count |-> 0]

\* what the caller of update_metric_since_last gets: the dict it returns, or,
\* when it is in its except block and db.rollback() raises there (~rollbackOk),
\* the exception of the rollback
SyncResultOf(rows, c, last, in, rollbackOk) ==
    IF SyncRaised(rows, c, last, in) /\ ~rollbackOk THEN RaisedSyncResult
    ELSE SyncOutcome(rows, c, last, in).result

StoreInit ==
    /\ metricRows = {}
    /\ syncPc = [t \in Tasks |-> "idle"]
    /\ syncCode = [t \in Tasks |-> "DFF"]
    /\ syncLast = [t \in Tasks |-> NoDate]
    /\ syncIn = [t \in Tasks |-> NoIn]
    /\ syncResult = [t \in Tasks |-> NoSyncResult]

\* update_metric_since_last up to the await of fetch_historical
SyncStart(t) ==
    /\ syncPc[t] = "idle"
    /\ \E c \in ConfiguredSeries, tod \in {0, 1}, selectOk \in BOOLEAN :
         /\ syncCode' = [syncCode EXCEPT ![t] = c]
         /\ syncLast' = [syncLast EXCEPT ![t] = LastDate(metricRows, c, tod, selectOk)]
    /\ syncPc' = [syncPc EXCEPT ![t] = "fetch"]
    /\ UNCHANGED <<metricRows, syncIn, syncResult>>
    /\ UNCHANGED notStore

\* result = await self.fred.fetch_historical(series_id=metric_code,
\* use_cache=False): no start_date, no end_date
SyncRequest(c) == [series_id |-> c, start_date |-> NoDay, end_date |-> NoDay, use_cache |-> FALSE]

\* observation_start / observation_end are sent only when a date is given;
\* the upstream answers with the observations of the range asked for
UpstreamAnswer(P, req) ==
    {o \in P : /\ (req.start_date = NoDay \/ o.date >= req.start_date)
               /\ (req.end_date = NoDay \/ o.date <= req.end_date)}

\* what a sync can be given: fetch_historical raises (always for a series
\* that is not in SERIES_METADATA), or returns the upstream's list, and the
\* commit works or fails
SyncInputs(c) ==
    {[fetch |-> "error", data |-> {}, commitOk |-> TRUE]}
    \cup (IF c \in KnownSeries
          THEN {[fetch |-> "data", data |-> UpstreamAnswer(P, SyncRequest(c)), commitOk |-> ok] :
                    P \in Payloads, ok \in BOOLEAN}
          ELSE {})

\* fetch_historical(series_id, use_cache=False) has returned or raised; the
\* rest of the call runs up to its commit, or through its except block, where
\* db.rollback() works or raises
SyncComplete(t) ==
    /\ syncPc[t] = "fetch"
    /\ \E in \in SyncInputs(syncCode[t]), rollbackOk \in BOOLEAN :
         LET out == SyncOutcome(metricRows, syncCode[t], syncLast[t], in) IN
           /\ syncIn' = [syncIn EXCEPT ![t] = in]
           /\ syncResult' = [syncResult EXCEPT ![t] =
                  SyncResultOf(metricRows, syncCode[t], syncLast[t], in, rollbackOk)]
           /\ metricRows' = out.rows
    /\ syncPc' = [syncPc EXCEPT ![t] = "done"]
    /\ UNCHANGED <<syncCode, syncLast>>
    /\ UNCHANGED notStore

\* the caller has taken the result
SyncFinish(t) ==
    /\ syncPc[t] = "done"
    /\ syncPc' = [syncPc EXCEPT ![t] = "idle"]
    /\ syncCode' = [syncCode EXCEPT ![t] = "DFF"]
    /\ syncLast' = [syncLast EXCEPT ![t] = NoDate]
    /\ syncIn' = [syncIn EXCEPT ![t] = NoIn]
    /\ syncResult' = [syncResult EXCEPT ![t] = NoSyncResult]
    /\ UNCHANGED metricRows
    /\ UNCHANGED notStore

StoreNext ==
    \/ \E t \in Tasks : SyncStart(t)
    \/ \E t \in Tasks : SyncComplete(t)
    \/ \E t \in Tasks : SyncFinish(t)
(* -------------------------- update_all_metrics ------------------------ *)

\* get_all_metric_configs(): the configured series in the order of
\* METRICS_CONFIG (four of them: only the second is a series the client accepts)
AllConfigs == <<"FEDFUNDS", "DFF", "DFEDTARU", "GDP">>
AllCodes == {AllConfigs[i] : i \in 1..Len(AllConfigs)}
AllDone == Len(AllConfigs) + 1
AllRaised == Len(AllConfigs) + 2

CatchSeriesFailureReraise(results, c) == [results |-> results, raised |-> TRUE]
\* the "except Exception" of the loop of update_all_metrics: the series gets
\* an error entry and the loop goes on
CatchSeriesFailure(results, c) ==
    [results |-> [results EXCEPT ![c] = ErrorResult], raised |-> FALSE]

SyncAllInit ==
    /\ allIdx = 0
    /\ allResults = [c \in AllCodes |-> NoSyncResult]
    /\ allLast = NoDate

\* update_all_metrics is called: configs is read, results = {}
SyncAllStart ==
    /\ allIdx = 0
    /\ allIdx' = 1
    /\ allResults' = [c \in AllCodes |-> NoSyncResult]
    /\ UNCHANGED <<metricRows, allLast>>
    /\ UNCHANGED notSyncAll

\* a turn of the loop begins: update_metric_since_last for the config at
\* allIdx, up to the await of fetch_historical
SyncAllRead ==
    /\ allIdx \in 1..Len(AllConfigs)
    /\ allLast = NoDate
    /\ \E tod \in {0, 1}, selectOk \in BOOLEAN :
         allLast' = LastDate(metricRows, AllConfigs[allIdx], tod, selectOk)
    /\ UNCHANGED <<metricRows, allIdx, allResults>>
    /\ UNCHANGED notSyncAll

\* the turn ends: fetch_historical has returned or raised and the call runs
\* up to its commit.  rollbackOk: whether db.rollback() works in its except
\* block; when it does not, the exception leaves the call and the loop's own
\* except takes it.
SyncAllStep ==
    /\ allIdx \in 1..Len(AllConfigs)
    /\ allLast # NoDate
    /\ \E in \in SyncInputs(AllConfigs[allIdx]), rollbackOk \in BOOLEAN :
         LET c == AllConfigs[allIdx]
             out == SyncOutcome(metricRows, c, allLast, in)
             caught == CatchSeriesFailure(allResults, c)
         IN /\ metricRows' = out.rows
            /\ IF SyncRaised(metricRows, c, allLast, in) /\ ~rollbackOk
               THEN /\ allResults' = caught.results
                    /\ allIdx' = IF caught.raised THEN AllRaised ELSE allIdx + 1
               ELSE /\ allResults' = [allResults EXCEPT ![c] = out.result]
                    /\ allIdx' = allIdx + 1
    /\ allLast' = NoDate
    /\ UNCHANGED notSyncAll

\* fred.close(), "return results": the caller has taken the dict
SyncAllReturn ==
    /\ allIdx \in {AllDone, AllRaised}
    /\ allIdx' = 0
    /\ allResults' = [c \in AllCodes |-> NoSyncResult]
    /\ UNCHANGED <<metricRows, allLast>>
    /\ UNCHANGED notSyncAll

(* ----------------------- _store_data_points ---------------------------- *)

\* The points handed to _store_data_points: a date string that strptime
\* parses to a day, or one it rejects (BadDate); a float value, counted in
\* halves of 10^-6; the fetch time.
BadDate == 0 - 1
FredDays == {Today - 1, Today}
PointValues == {1, 2, 3}
FetchTimes == {1}
Points ==
    [series_id : KnownSeries, date : FredDays \cup {BadDate}, value : PointValues,
     fetched_at : FetchTimes]

Batches == SeqsUpTo(Points, MaxBatch)

\* Decimal(str(value)) written to a Numeric(20, 6) column: rounded to 10^-6
ToNumeric(v) == (v + 1) \div 2

UpsertPointNoConstraint(rows, pt) ==
    rows \cup {[series_id |-> pt.series_id, date |-> pt.date, value |-> ToNumeric(pt.value),
                fetched_at |-> pt.fetched_at,
                n |-> Cardinality({r \in rows : r.series_id = pt.series_id /\ r.date = pt.date}) + 1]}
\* insert(FredDataPoint).values(...).on_conflict_do_update(
\*     constraint='uix_fred_series_date', set_={value, fetched_at, ...})
UpsertPoint(rows, pt) ==
    IF \E r \in rows : r.series_id = pt.series_id /\ r.date = pt.date
    THEN {IF r.series_id = pt.series_id /\ r.date = pt.date
          THEN [r EXCEPT !.value = ToNumeric(pt.value), !.fetched_at = pt.fetched_at]
          ELSE r : r \in rows}
    ELSE rows \cup {[series_id |-> pt.series_id, date |-> pt.date,
                     value |-> ToNumeric(pt.value), fetched_at |-> pt.fetched_at, n |-> 1]}

RECURSIVE StoreDataPoints(_, _)
\* the loop of _store_data_points: a point whose date does not parse raises
\* inside the try and is skipped; every other point is upserted and counted
StoreDataPoints(rows, batch) ==
    IF batch = <<>> THEN [rows |-> rows, count |-> 0]
    ELSE IF Head(batch).date = BadDate THEN StoreDataPoints(rows, Tail(batch))
    ELSE LET rest == StoreDataPoints(UpsertPoint(rows, Head(batch)), Tail(batch)) IN
         [rows |-> rest.rows, count |-> rest.count + 1]

UpsertInit ==
    /\ fredRows = {}
    /\ lastBatch = <<>>
    /\ lastCount = 0
    /\ repeated = FALSE

\* one call of _store_data_points, committed
StorePoints ==
    /\ \E b \in Batches :
         LET out == StoreDataPoints(fredRows, b) IN
           /\ fredRows' = out.rows
           /\ lastCount' = out.count
           /\ lastBatch' = b
           /\ repeated' = (b = lastBatch)
    /\ UNCHANGED notUpsert

UpsertNext == StorePoints

(* ------------- the other writers of metric_data_points ---------------- *)

\* the points backfill and refresh are given: recent days, any value
MetricPoints == [date : FredDays, value : Values]

UpsertMetricPointReplacingSeries(rows, c, pt, src) ==
    {r \in rows : r.code # c} \cup {NewRow({}, c, pt, src)}
\* insert(MetricDataPoint).values(...).on_conflict_do_update(
\*     constraint='uix_metric_date', set_={value, source, updated_at})
UpsertMetricPoint(rows, c, pt, src) ==
    IF HasConflict(rows, c, pt.date)
    THEN {IF r.code = c /\ r.date = pt.date
          THEN [r EXCEPT !.value = pt.value, !.source = src]
          ELSE r : r \in rows}
    ELSE rows \cup {NewRow(rows, c, pt, src)}

RECURSIVE UpsertBatch(_, _, _, _)
\* "for point in batch" of backfill_metric
UpsertBatch(rows, c, batch, src) ==
    IF batch = <<>> THEN rows
    ELSE UpsertBatch(UpsertMetricPoint(rows, c, Head(batch), src), c, Tail(batch), src)

\* one batch of backfill_metric for a series that is configured and that the
\* client accepts: every point is upserted, then the batch is committed, or
\* the commit fails and the batch is rolled back
BackfillBatch ==
    /\ \A t \in Tasks : syncPc[t] # "done"
    /\ \E c \in ConfiguredSeries \cap KnownSeries,
          batch \in SeqsUpTo(MetricPoints, MaxBatch) \ {<<>>}, commitOk \in BOOLEAN :
         metricRows' = IF commitOk THEN UpsertBatch(metricRows, c, batch, "FRED")
                       ELSE metricRows
    /\ UNCHANGED syncTaskVars
    /\ UNCHANGED notStore

\* update_all_metrics, while the backfill script writes to the same table
\* between the turns of its loop and between a turn's read of the watermark
\* and its commit
SyncAllNext == SyncAllStart \/ SyncAllRead \/ SyncAllStep \/ SyncAllReturn \/ BackfillBatch

(* ------------------- processing of upstream payloads ------------------ *)

\* A value string is a sequence of characters.  NullValue stands for a JSON
\* null or an absent "value" key: obs.get("value") is None.
Alphabet == {"1", ".", "-", "x"}
Digits == {"1"}
Sentinel == <<".">>
NullValue == <<"null">>
ValueStrings == SeqsUpTo(Alphabet, MaxStrLen) \cup {NullValue}

RECURSIVE Pow10(_)
Pow10(n) == IF n = 0 THEN 1 ELSE 10 * Pow10(n - 1)

DigitValue(c) == IF c = "1" THEN 1 ELSE 0

RECURSIVE DigitsValue(_)
\* the number a digit string denotes
DigitsValue(ds) ==
    IF ds = <<>> THEN 0 ELSE 10 * DigitsValue(SubSeq(ds, 1, Len(ds) - 1)) + DigitValue(ds[Len(ds)])

\* float(value_str): [ok, val].  ok is FALSE where float raises ValueError;
\* val is the number, counted in units of 10^-MaxStrLen.  (Of what float
\* accepts, the alphabet leaves: an optional sign, digits, an optional point
\* and digits, with at least one digit.)
ParseFloat(str) ==
    LET signed == str # <<>> /\ Head(str) \in {"-"}
        body == IF signed THEN Tail(str) ELSE str
        dots == {i \in 1..Len(body) : body[i] = "."}
        dot == IF dots = {} THEN Len(body) + 1 ELSE CHOOSE i \in dots : TRUE
        intPart == SubSeq(body, 1, dot - 1)
        fracPart == SubSeq(body, dot + 1, Len(body))
        magnitude == DigitsValue(intPart) * Pow10(MaxStrLen)
                     + DigitsValue(fracPart) * Pow10(MaxStrLen - Len(fracPart))
    IN IF \/ Cardinality(dots) > 1
          \/ \E i \in 1..Len(body) : body[i] \notin Digits \cup {"."}
          \/ Len(intPart) + Len(fracPart) = 0
       THEN [ok |-> FALSE, val |-> 0]
       ELSE [ok |-> TRUE, val |-> IF signed THEN 0 - magnitude ELSE magnitude]

\* if value_str == "." or value_str is None
IsMissing(v) == v = Sentinel \/ v = NullValue

RECURSIVE ProcessObservationsStopAtMissing(_)
ProcessObservationsStopAtMissing(obs) ==
    IF obs = <<>> THEN <<>>
    ELSE IF IsMissing(Head(obs).value) THEN <<>>
    ELSE IF ~ParseFloat(Head(obs).value).ok THEN ProcessObservationsStopAtMissing(Tail(obs))
    ELSE <<[date |-> Head(obs).date, value |-> ParseFloat(Head(obs).value).val]>>
         \o ProcessObservationsStopAtMissing(Tail(obs))

RECURSIVE ProcessObservations(_)
\* the loop "for obs in observations" of fetch_historical: a missing value
\* is skipped, a value float rejects is skipped, every other observation is
\* appended with its parsed value
ProcessObservations(obs) ==
    IF obs = <<>> THEN <<>>
    ELSE IF IsMissing(Head(obs).value) THEN ProcessObservations(Tail(obs))
    ELSE IF ~ParseFloat(Head(obs).value).ok THEN ProcessObservations(Tail(obs))
    ELSE <<[date |-> Head(obs).date, value |-> ParseFloat(Head(obs).value).val]>>
         \o ProcessObservations(Tail(obs))

\* the payloads: sort_order=desc, one observation per day, the latest first
PayloadsOver(S, n) ==
    {[i \in 1..Len(vs) |-> [date |-> Today - i + 1, value |-> vs[i]]] :
        vs \in {q \in SeqsUpTo(S, n) : TRUE}}

PayloadsOf(n) == PayloadsOver(ValueStrings, n)

ParseInit ==
    /\ payload \in PayloadsOf(MaxObs)
    /\ parsed = <<>>
    /\ parsePc = "input"

ParseIdle ==
    /\ payload = <<>>
    /\ parsed = <<>>
    /\ parsePc = "done"

\* data.get("observations", []) has been taken from the response: the loop runs
ProcessPayload ==
    /\ parsePc = "input"
    /\ parsed' = ProcessObservations(payload)
    /\ parsePc' = "done"
    /\ UNCHANGED payload
    /\ UNCHANGED notParse

ParseNext == ProcessPayload

(* ----------------------------- cache-aside ---------------------------- *)

\* SERIES_METADATA, two of its five series, in the order of the dict
SeriesMetadata == <<"DFF", "UNRATE">>
TrackedSeries == {SeriesMetadata[i] : i \in 1..Len(SeriesMetadata)}
\* the series_id arguments of fetch_historical: tracked, lower case, unknown
SeriesArgs == {"DFF", "dff", "GDP"}
\* series_id.upper()
Upper(sid) == IF sid = "dff" THEN "DFF" ELSE sid

DateRanges == {[start |-> NoDay, end |-> NoDay], [start |-> Today, end |-> NoDay]}

\* the value strings of the payloads the reads are run on
ReadValueStrings == {Sentinel, <<"1">>, <<"x">>}
ReadPayloads == PayloadsOver(ReadValueStrings, MaxObs)

RECURSIVE ObservationsIn(_, _)
\* the upstream's answer to observation_start / observation_end
ObservationsIn(obs, range) ==
    IF obs = <<>> THEN <<>>
    ELSE IF /\ (range.start = NoDay \/ Head(obs).date >= range.start)
            /\ (range.end = NoDay \/ Head(obs).date <= range.end)
         THEN <<Head(obs)>> \o ObservationsIn(Tail(obs), range)
         ELSE ObservationsIn(Tail(obs), range)

\* f"fred:historical:{series_id}:{start}:{end}" and "fred:current:all"
GetCacheKeyNoRange(type, sid, range) ==
    IF type = "historical" THEN <<"fred", "historical", sid, NoDay, NoDay>>
    ELSE <<"fred", "current", "all", NoDay, NoDay>>

GetCacheKey(type, sid, range) ==
    IF type = "historical" THEN <<"fred", "historical", sid, range.start, range.end>>
    ELSE <<"fred", "current", "all", NoDay, NoDay>>

NoRange == [start |-> NoDay, end |-> NoDay]
CacheKeys ==
    {GetCacheKey("historical", sid, r) : sid \in {"DFF", "GDP"}, r \in DateRanges}
        \cup {GetCacheKey("all_current", "", NoRange)}

NoEntry == [text |-> <<>>, by |-> <<>>]

\* json.dumps / json.loads of the "data" list of a result: every item becomes
\* the tuple of its fields and back; strings, ints and floats come back as
\* they went in
JsonDumps(type, data) ==
    IF type = "historical"
    THEN [i \in 1..Len(data) |-> <<data[i].date, data[i].value>>]
    ELSE [i \in 1..Len(data) |->
             <<data[i].series_id, data[i].value, data[i].date, data[i].fetched_at>>]

JsonLoads(type, text) ==
    IF type = "historical"
    THEN [i \in 1..Len(text) |-> [date |-> text[i][1], value |-> text[i][2]]]
    ELSE [i \in 1..Len(text) |->
             [series_id |-> text[i][1], value |-> text[i][2],
              date |-> text[i][3], fetched_at |-> text[i][4]]]


\* _get_from_cache: [hit, entry, failed, raised].  No client, a RedisError
\* from get or ttl, and a missing key all end in "return None".
GetFromCachePropagates(c, rd, key, faults) ==
    IF ~rd THEN [hit |-> FALSE, entry |-> NoEntry, failed |-> {}, raised |-> FALSE]
    ELSE IF "get" \in faults
    THEN [hit |-> FALSE, entry |-> NoEntry, failed |-> {"get"}, raised |-> TRUE]
    ELSE IF c[key] = NoEntry
    THEN [hit |-> FALSE, entry |-> NoEntry, failed |-> {}, raised |-> FALSE]
    ELSE IF "ttl" \in faults
    THEN [hit |-> FALSE, entry |-> NoEntry, failed |-> {"ttl"}, raised |-> TRUE]
    ELSE [hit |-> TRUE, entry |-> c[key], failed |-> {}, raised |-> FALSE]

GetFromCache(c, rd, key, faults) ==
    IF ~rd THEN [hit |-> FALSE, entry |-> NoEntry, failed |-> {}, raised |-> FALSE]
    ELSE IF "get" \in faults
    THEN [hit |-> FALSE, entry |-> NoEntry, failed |-> {"get"}, raised |-> FALSE]
    ELSE IF c[key] = NoEntry
    THEN [hit |-> FALSE, entry |-> NoEntry, failed |-> {}, raised |-> FALSE]
    ELSE IF "ttl" \in faults
    THEN [hit |-> FALSE, entry |-> NoEntry, failed |-> {"ttl"}, raised |-> FALSE]
    ELSE [hit |-> TRUE, entry |-> c[key], failed |-> {}, raised |-> FALSE]

\* _set_cache: [cache, failed].  No client: nothing; a RedisError from setex
\* is logged and the cache is left as it was.
SetCache(c, rd, key, entry, faults) ==
    IF ~rd THEN [cache |-> c, failed |-> {}]
    ELSE IF "setex" \in faults THEN [cache |-> c, failed |-> {"setex"}]
    ELSE [cache |-> [c EXCEPT ![key] = entry], failed |-> {}]

NoRead == [op |-> "none", sid |-> "", range |-> NoRange, useCache |-> FALSE, at |-> 0]
NoReadResult == [kind |-> "none", err |-> "", data |-> <<>>, cached |-> FALSE]
DataResult(data, cached) == [kind |-> "data", err |-> "", data |-> data, cached |-> cached]
RaisedResult(err) == [kind |-> "error", err |-> err, data |-> <<>>, cached |-> FALSE]

\* what fetch_historical makes of the upstream alone: the error of the
\* request, or the processed observations of the range
DirectHistorical(ok, full, range) ==
    IF ~ok THEN RaisedResult("upstream")
    ELSE DataResult(ProcessObservations(ObservationsIn(full, range)), FALSE)

\* one turn of the loop over SERIES_METADATA of fetch_current_values: up is
\* the answer for the series, [ok, obs] with limit=1; a failed request, an
\* empty list, a missing value and an invalid value are skipped
CurrentResult(up, sid, at) ==
    LET one == IF up.ok /\ up.obs # <<>>
               THEN ProcessObservations(<<Head(up.obs)>>)
               ELSE <<>>
    IN IF one = <<>> THEN <<>>
       ELSE <<[series_id |-> sid, value |-> one[1].value,
               date |-> one[1].date, fetched_at |-> at]>>

RECURSIVE CurrentResults(_, _, _)
\* the whole loop from series i on, ups[i] the answer for series i
CurrentResults(ups, i, at) ==
    IF i > Len(SeriesMetadata) THEN <<>>
    ELSE CurrentResult(ups[i], SeriesMetadata[i], at) \o CurrentResults(ups, i + 1, at)

\* the answers of the upstream to the requests of one fetch_current_values
CurrentAnswers ==
    [1..Len(SeriesMetadata) ->
        {[ok |-> FALSE, obs |-> <<>>]}
            \cup {[ok |-> TRUE, obs |-> o] : o \in PayloadsOver(ReadValueStrings, 1)}]

CacheInit ==
    /\ redis \in BOOLEAN
    /\ cache = [k \in CacheKeys |-> NoEntry]
    /\ clock = 0
    /\ readReq = NoRead
    /\ readResult = NoReadResult
    /\ readDirect = NoReadResult
    /\ readHit = NoEntry
    /\ readFailed = {}
    /\ readOps = {}
    /\ readPc = "idle"
    /\ readLeft = 0

IsKnownSeriesAlways(sid) == TRUE
\* if series_id not in SERIES_METADATA: raise FREDAPIError(status_code=400)
IsKnownSeries(sid) == sid \in TrackedSeries

\* _get_from_cache asks the backend when there is a client
CacheReadOps(useCache) == IF useCache /\ redis THEN {"get"} ELSE {}
\* _set_cache calls setex when there is a client
CacheWriteOps(useCache) == IF useCache /\ redis THEN {"setex"} ELSE {}
\* _make_request_with_retry takes a slot of the limiter and sends the request
UpstreamOps == {"acquire", "http"}

\* the key a read looks up and stores under
RequestKeyOf(req) ==
    IF req.op = "historical" THEN GetCacheKey("historical", req.sid, req.range)
    ELSE GetCacheKey("all_current", "", NoRange)

\* TRUE iff the entry holds data of series sid: a fetch_historical result of
\* that series, or a fetch_current_values list with an item of that series
EntryHolds(entry, sid) ==
    /\ entry # NoEntry
    /\ \/ entry.by[1] = "historical" /\ entry.by[2] = sid
       \/ entry.by[1] = "current" /\ \E i \in 1..Len(entry.text) : entry.text[i][1] = sid

\* a setex that succeeds writes the key again: an invalidate_cache under way
\* no longer counts its entry among those stored before the call
WrittenAgain(key, set) ==
    IF redis /\ set.failed = {} THEN [inv EXCEPT !.held = @ \ {key}] ELSE inv

\* the entry a read stores under its key
EntryOf(req, data) ==
    IF req.op = "historical"
    THEN [text |-> JsonDumps("historical", data),
          by |-> <<"historical", req.sid, req.range.start, req.range.end>>]
    ELSE [text |-> JsonDumps("current", data), by |-> <<"current", "all", NoDay, NoDay>>]

\* fetch_historical(series_id, start_date, end_date, use_cache) up to its
\* await of the upstream: the validation and _get_from_cache, while the redis
\* operations in faults raise RedisError.  readDirect is what the same call
\* gets from the upstream alone: after a hit, any answer the upstream may
\* give at that moment; after a miss, the answer the call then receives.
FetchHistorical(arg, range, useCache, faults) ==
    LET sid == Upper(arg)
        key == GetCacheKey("historical", sid, range)
        got == GetFromCache(cache, redis, key, faults)
    IN /\ readPc = "idle"
       /\ readReq' = [op |-> "historical", sid |-> sid, range |-> range,
                      useCache |-> useCache, at |-> 0]
       /\ IF ~IsKnownSeries(sid)
          THEN /\ readResult' = RaisedResult("unknown_series")
               /\ readDirect' = RaisedResult("unknown_series")
               /\ readHit' = NoEntry
               /\ readFailed' = {}
               /\ readOps' = {}
               /\ readPc' = "done"
               /\ readLeft' = 0
          ELSE /\ readOps' = CacheReadOps(useCache)
               /\ IF useCache /\ got.raised
                  THEN /\ readResult' = RaisedResult("cache")
                       /\ readDirect' = NoReadResult
                       /\ readHit' = NoEntry
                       /\ readFailed' = got.failed
                       /\ readPc' = "done"
                       /\ readLeft' = 0
                  ELSE IF useCache /\ got.hit
                  THEN /\ readResult' = DataResult(JsonLoads("historical", got.entry.text), TRUE)
                       /\ \E ok \in BOOLEAN, full \in ReadPayloads :
                            /\ (~ok => full = <<>>)
                            /\ readDirect' = DirectHistorical(ok, full, range)
                       /\ readHit' = got.entry
                       /\ readFailed' = {}
                       /\ readPc' = "done"
                       /\ readLeft' = 0
                  ELSE /\ readResult' = NoReadResult
                       /\ readDirect' = NoReadResult
                       /\ readHit' = NoEntry
                       /\ readFailed' = IF useCache THEN got.failed ELSE {}
                       /\ readPc' = "upstream"
                       /\ readLeft' = 1
       /\ UNCHANGED <<redis, cache, clock>>
       /\ UNCHANGED notCache

\* fetch_current_values(use_cache) up to the first request of its loop:
\* _get_from_cache, results = [] and fetched_at = now
FetchCurrentValues(useCache, faults) ==
    LET key == GetCacheKey("all_current", "", NoRange)
        got == GetFromCache(cache, redis, key, faults)
    IN /\ readPc = "idle"
       /\ readReq' = [op |-> "current", sid |-> "all", range |-> NoRange,
                      useCache |-> useCache, at |-> clock]
       /\ readOps' = CacheReadOps(useCache)
       /\ IF useCache /\ got.raised
          THEN /\ readResult' = RaisedResult("cache")
               /\ readDirect' = NoReadResult
               /\ readHit' = NoEntry
               /\ readFailed' = got.failed
               /\ readPc' = "done"
               /\ readLeft' = 0
          ELSE IF useCache /\ got.hit
          THEN /\ readResult' = DataResult(JsonLoads("current", got.entry.text), FALSE)
               /\ \E ups \in CurrentAnswers :
                    readDirect' = DataResult(CurrentResults(ups, 1, clock), FALSE)
               /\ readHit' = got.entry
               /\ readFailed' = {}
               /\ readPc' = "done"
               /\ readLeft' = 0
          ELSE /\ readResult' = NoReadResult
               /\ readDirect' = DataResult(<<>>, FALSE)
               /\ readHit' = NoEntry
               /\ readFailed' = IF useCache THEN got.failed ELSE {}
               /\ readPc' = "upstream"
               /\ readLeft' = Len(SeriesMetadata)
       /\ UNCHANGED <<redis, cache, clock>>
       /\ UNCHANGED notCache

\* a call of fetch_historical begins
ReadHistorical ==
    \E arg \in SeriesArgs, range \in DateRanges, useCache \in BOOLEAN,
       faults \in SUBSET {"get", "ttl"} :
          /\ (~useCache => faults = {})
          /\ FetchHistorical(arg, range, useCache, faults)

\* a call of fetch_current_values begins
ReadCurrent ==
    \E useCache \in BOOLEAN, faults \in SUBSET {"get", "ttl"} :
          /\ (~useCache => faults = {})
          /\ FetchCurrentValues(useCache, faults)

\* "if use_cache:" of fetch_historical, "if use_cache and results:" of
\* fetch_current_values: the read goes on to _set_cache
WillStore(req, direct) ==
    /\ req.useCache
    /\ direct.kind = "data"
    /\ req.op = "current" => direct.data # <<>>

\* what the read holds once the upstream has answered a request with
\* [ok, full]: the result of fetch_historical, or the results list of
\* fetch_current_values with the item of the series of this turn, if any
Answered(req, direct, left, ok, full) ==
    IF req.op = "historical" THEN DirectHistorical(ok, full, req.range)
    ELSE DataResult(direct.data
                       \o CurrentResult([ok |-> ok, obs |-> full],
                                        SeriesMetadata[Len(SeriesMetadata) - left + 1],
                                        req.at),
                    FALSE)

\* an await of _make_request_with_retry ends: the request of fetch_historical,
\* or the request for one series in the loop of fetch_current_values (limit=1).
\* After the last one the read raises the upstream's error, returns, or goes
\* on to store its result.
ReadUpstream ==
    /\ readPc = "upstream"
    /\ \E ok \in BOOLEAN, full \in ReadPayloads :
         /\ (~ok => full = <<>>)
         /\ (readReq.op = "current" => Len(full) <= 1)
         /\ LET direct == Answered(readReq, readDirect, readLeft, ok, full) IN
              /\ readDirect' = direct
              /\ IF readLeft > 1
                 THEN UNCHANGED <<readPc, readResult>>
                 ELSE IF WillStore(readReq, direct)
                 THEN /\ readPc' = "store"
                      /\ UNCHANGED readResult
                 ELSE /\ readPc' = "done"
                      /\ readResult' = direct
    /\ readOps' = readOps \cup UpstreamOps
    /\ readLeft' = readLeft - 1
    /\ UNCHANGED <<redis, cache, clock, readReq, readHit, readFailed>>
    /\ UNCHANGED notCache

\* _set_cache of the result, then the return
ReadStore ==
    /\ readPc = "store"
    /\ \E faults \in SUBSET {"setex"} :
         LET set == SetCache(cache, redis, RequestKeyOf(readReq),
                             EntryOf(readReq, readDirect.data), faults) IN
           /\ cache' = set.cache
           /\ readFailed' = readFailed \cup set.failed
           /\ inv' = WrittenAgain(RequestKeyOf(readReq), set)
    /\ readOps' = readOps \cup CacheWriteOps(readReq.useCache)
    /\ readResult' = readDirect
    /\ readPc' = "done"
    /\ UNCHANGED <<redis, clock, readReq, readDirect, readHit, readLeft>>
    /\ UNCHANGED notCacheWrite

\* the backend drops an entry when its TTL (setex) has run out
Expire ==
    /\ \E k \in CacheKeys :
        /\ cache[k] # NoEntry
        /\ cache' = [cache EXCEPT ![k] = NoEntry]
    /\ UNCHANGED <<redis, clock, readReq, readResult, readDirect, readHit, readFailed,
                   readOps, readPc, readLeft>>
    /\ UNCHANGED notCache

ClockTick ==
    /\ clock < MaxClock
    /\ clock' = clock + 1
    /\ UNCHANGED <<redis, cache, readReq, readResult, readDirect, readHit, readFailed,
                   readOps, readPc, readLeft>>
    /\ UNCHANGED notCache

\* the caller has taken the result of the read
ReadReturn ==
    /\ readPc = "done"
    /\ readReq' = NoRead
    /\ readResult' = NoReadResult
    /\ readDirect' = NoReadResult
    /\ readHit' = NoEntry
    /\ readFailed' = {}
    /\ readOps' = {}
    /\ readPc' = "idle"
    /\ UNCHANGED <<redis, cache, clock, readLeft>>
    /\ UNCHANGED notCache

CacheNext ==
    ReadHistorical \/ ReadCurrent \/ ReadUpstream \/ ReadStore \/ ReadReturn
        \/ Expire \/ ClockTick

(* ----------------------- _invalidate_cache_pattern -------------------- *)

\* the series_id arguments of invalidate_cache; "" stands for None
InvalidateArgs == {"", "DFF", "dff", "GDP"}

\* redis.scan_iter(match=pattern) for the patterns of invalidate_cache:
\* "fred:*" matches every key; f"fred:*:{SERIES}*" matches a key that has the
\* series code right after a colon, which among the keys the reads write are
\* the fred:historical:{SERIES}:{start}:{end} ones
KeyMatches(key, sid) ==
    IF sid = "" THEN key[1] = "fred"
    ELSE key[1] = "fred" /\ key[3] = Upper(sid)

\* the pattern "fred:current:*" of fetch_and_store_all
KeyMatchesCurrent(key) == key[1] = "fred" /\ key[2] = "current"

\* held: the keys whose entries held data of the series when invalidate_cache
\* was called and have not been written again since
NoInv == [by |-> "none", sid |-> "none", todo |-> {}, count |-> 0, removed |-> 0,
          ok |-> TRUE, pc |-> "idle", held |-> {}]

InvInit == inv = NoInv

\* _invalidate_cache_pattern up to the first key of scan_iter: no client
\* returns 0; a RedisError of the scan (~ok) is logged and returns 0; else
\* the scan yields the stored keys that match, one after the other
InvalidateCachePattern(by, sid, keys, ok) ==
    IF ~redis THEN [NoInv EXCEPT !.by = by, !.sid = Upper(sid), !.pc = "done"]
    ELSE IF ~ok THEN [NoInv EXCEPT !.by = by, !.sid = Upper(sid), !.ok = FALSE, !.pc = "done"]
    ELSE [NoInv EXCEPT !.by = by, !.sid = Upper(sid), !.todo = keys,
                       !.pc = IF keys = {} THEN "done" ELSE "delete"]

\* invalidate_cache(series_id) is called
InvalidateCache ==
    /\ inv = NoInv
    /\ \E sid \in InvalidateArgs, ok \in BOOLEAN :
         inv' = [InvalidateCachePattern("invalidate_cache", sid,
                    {k \in CacheKeys : KeyMatches(k, sid) /\ cache[k] # NoEntry}, ok)
                 EXCEPT !.held = {k \in CacheKeys : EntryHolds(cache[k], Upper(sid))}]
    /\ UNCHANGED cache
    /\ UNCHANGED notInvalidate

\* fetch_and_store_all has fetched the current values without the cache and
\* stored them: its last await is _invalidate_cache_pattern("fred:current:*")
StoreAllInvalidate ==
    /\ inv = NoInv
    /\ \E ok \in BOOLEAN :
         inv' = InvalidateCachePattern("fetch_and_store_all", "",
                    {k \in CacheKeys : KeyMatchesCurrent(k) /\ cache[k] # NoEntry}, ok)
    /\ UNCHANGED cache
    /\ UNCHANGED notInvalidate

\* one turn of "async for key in scan_iter: await redis.delete(key);
\* deleted += 1": the key is counted whether or not it is still stored; a
\* RedisError (~ok) ends the call with 0 and the keys deleted so far stay deleted
InvalidateDelete ==
    /\ inv.pc = "delete"
    /\ \E k \in inv.todo, ok \in BOOLEAN :
         IF ~ok
         THEN /\ inv' = [inv EXCEPT !.todo = {}, !.count = 0, !.ok = FALSE, !.pc = "done"]
              /\ UNCHANGED cache
         ELSE /\ cache' = [cache EXCEPT ![k] = NoEntry]
              /\ inv' = [inv EXCEPT !.todo = inv.todo \ {k},
                                    !.count = inv.count + 1,
                                    !.removed = inv.removed + IF cache[k] # NoEntry THEN 1 ELSE 0,
                                    !.pc = IF inv.todo = {k} THEN "done" ELSE "delete"]
    /\ UNCHANGED notInvalidate

\* the caller has taken the count
InvalidateReturn ==
    /\ inv.pc = "done"
    /\ inv' = NoInv
    /\ UNCHANGED cache
    /\ UNCHANGED notInvalidate

\* the reads, the expiry of entries and the invalidations, interleaved
InvalidateNext ==
    ReadHistorical \/ ReadCurrent \/ ReadUpstream \/ ReadStore \/ ReadReturn \/ Expire
        \/ InvalidateCache \/ StoreAllInvalidate \/ InvalidateDelete \/ InvalidateReturn

(* --------------------------- refresh_metric --------------------------- *)

\* the metric codes refresh_metric goes on with: configured (else 404) and
\* accepted by fetch_historical
RefreshSeries == ConfiguredSeries \cap KnownSeries

RefreshIdle ==
    /\ refreshPc = "idle"
    /\ refreshCode = ""
    /\ refreshUseCache = FALSE
    /\ refreshData = <<>>

\* the call fetch_historical(series_id=metric_code, use_cache=not force)
RefreshRead(c, useCache) ==
    [op |-> "historical", sid |-> Upper(c), range |-> NoRange, useCache |-> useCache]

\* the handler ends: its response, or the 500 of an exception
RefreshEnd ==
    /\ refreshPc' = "idle"
    /\ refreshCode' = ""
    /\ refreshUseCache' = FALSE
    /\ refreshData' = <<>>

\* refresh_metric up to the first await of fetch_historical that leaves the
\* handler waiting: _get_from_cache when use_cache; a hit is the data to store
RefreshStart ==
    /\ refreshPc = "idle"
    /\ \A t \in Tasks : syncPc[t] # "done"
    /\ \E c \in RefreshSeries, force \in BOOLEAN, faults \in SUBSET {"get", "ttl"} :
         LET got == GetFromCache(cache, redis, RequestKeyOf(RefreshRead(c, ~force)), faults)
         IN IF ~force /\ got.raised
            THEN UNCHANGED refreshVars
            ELSE /\ refreshCode' = c
                 /\ refreshUseCache' = ~force
                 /\ IF ~force /\ got.hit
                    THEN /\ refreshData' = JsonLoads("historical", got.entry.text)
                         /\ refreshPc' = "write"
                    ELSE /\ refreshData' = <<>>
                         /\ refreshPc' = "upstream"
    /\ UNCHANGED <<metricRows, cache, inv>>
    /\ UNCHANGED notRefreshRun

\* the request of fetch_historical is answered: an error ends the handler,
\* the processed observations are the data
RefreshFetched ==
    /\ refreshPc = "upstream"
    /\ \A t \in Tasks : syncPc[t] # "done"
    /\ \E ok \in BOOLEAN, full \in ReadPayloads :
         /\ (~ok => full = <<>>)
         /\ LET direct == DirectHistorical(ok, full, NoRange) IN
              IF direct.kind = "error" THEN RefreshEnd
              ELSE /\ refreshData' = direct.data
                   /\ refreshPc' = IF refreshUseCache THEN "store" ELSE "write"
                   /\ UNCHANGED <<refreshCode, refreshUseCache>>
    /\ UNCHANGED <<metricRows, cache, inv>>
    /\ UNCHANGED notRefreshRun

\* _set_cache of fetch_historical, which then returns to the handler
RefreshSetCache ==
    /\ refreshPc = "store"
    /\ \A t \in Tasks : syncPc[t] # "done"
    /\ \E faults \in SUBSET {"setex"} :
         LET req == RefreshRead(refreshCode, refreshUseCache)
             set == SetCache(cache, redis, RequestKeyOf(req), EntryOf(req, refreshData),
                             faults)
         IN /\ cache' = set.cache
            /\ inv' = WrittenAgain(RequestKeyOf(req), set)
    /\ refreshPc' = "write"
    /\ UNCHANGED <<refreshCode, refreshUseCache, refreshData>>
    /\ UNCHANGED metricRows
    /\ UNCHANGED notRefreshRun

\* the rest of refresh_metric: db.add of every point fetch_historical
\* returned (one per day, the value as fetch_historical holds it), then
\* commit; a unique violation or a failing commit leaves nothing written
RefreshMetric ==
    /\ refreshPc = "write"
    /\ \A t \in Tasks : syncPc[t] # "done"
    /\ \E commitOk \in BOOLEAN :
         LET data == {refreshData[i] : i \in 1..Len(refreshData)}
             out == InsertAll(metricRows, refreshCode, data)
         IN metricRows' = IF out.ok /\ commitOk THEN out.rows ELSE metricRows
    /\ RefreshEnd
    /\ UNCHANGED <<cache, inv>>
    /\ UNCHANGED notRefreshRun

\* The writers of metric_data_points never read or write fred_data_points,
\* and _store_data_points never reads or writes metric_data_points: each
\* table's writers are explored while the other table and the cache are as
\* they began.  A
\* sync that is done has only to hand its result over: the other writers
\* interleave with it before its commit and after its return.
MetricWrite ==
    /\ UpsertInit
    /\ \/ \E t \in Tasks : SyncStart(t)
       \/ \E t \in Tasks : SyncComplete(t)
       \/ \E t \in Tasks : SyncFinish(t)
       \/ BackfillBatch
       \/ RefreshStart
       \/ RefreshFetched
       \/ RefreshSetCache
       \/ RefreshMetric

FredWrite ==
    /\ StoreInit
    /\ RefreshIdle
    /\ \A k \in CacheKeys : cache[k] = NoEntry
    /\ StorePoints

WriteNext == MetricWrite \/ FredWrite

(* ---------------------------- check_data_gaps ------------------------- *)

NoGapOut == [error |-> FALSE, has_gaps |-> FALSE, gaps |-> <<>>, data_points |-> 0]

RECURSIVE SortedSeq(_)
\* order_by(MetricDataPoint.date.asc())
SortedSeq(S) ==
    IF S = {} THEN <<>>
    ELSE LET m == CHOOSE x \in S : \A y \in S : x <= y IN <<m>> \o SortedSeq(S \ {m})

\* where date >= cutoff_date, cutoff_date = datetime.now() - timedelta(days)
InGapWindow(day, tod) == 2 * day >= 2 * (Today - DaysToCheck) + tod

IsGapFromOneDay(days) == days >= 1
\* if gap_days > 1
IsGap(days) == days > 1

RECURSIVE GapsFrom(_, _)
\* the loop "for i in range(len(dates) - 1)" from index i on
GapsFrom(dates, i) ==
    IF i > Len(dates) - 1 THEN <<>>
    ELSE (IF IsGap(dates[i + 1] - dates[i])
          THEN <<[start |-> dates[i], end |-> dates[i + 1], days |-> dates[i + 1] - dates[i]]>>
          ELSE <<>>)
         \o GapsFrom(dates, i + 1)

\* check_data_gaps: the dict returned; dbOk says whether the query worked
CheckDataGapsOutcome(stored, tod, dbOk) ==
    LET dates == SortedSeq({d \in stored : InGapWindow(d, tod)})
        gaps == GapsFrom(dates, 1)
    IN IF ~dbOk THEN [error |-> TRUE, has_gaps |-> FALSE, gaps |-> <<>>, data_points |-> 0]
       ELSE IF dates = <<>> THEN NoGapOut
       ELSE [error |-> FALSE, has_gaps |-> Len(gaps) > 0, gaps |-> gaps,
             data_points |-> Len(dates)]

GapIdle ==
    /\ gapDates = {}
    /\ gapTod = 0
    /\ gapOut = NoGapOut
    /\ gapPc = "done"

GapInit ==
    /\ gapDates \in SUBSET ((Today - GapSpan)..Today)
    /\ gapTod \in {0, 1}
    /\ gapOut = NoGapOut
    /\ gapPc = "input"

CheckDataGaps ==
    /\ gapPc = "input"
    /\ \E dbOk \in BOOLEAN : gapOut' = CheckDataGapsOutcome(gapDates, gapTod, dbOk)
    /\ gapPc' = "done"
    /\ UNCHANGED <<gapDates, gapTod>>
    /\ UNCHANGED notGap

GapNext == CheckDataGaps

(* ------------------------ check_metric_freshness ---------------------- *)

FreshDates == {1, 2}
NoFreshOut == [status |-> "none", raised |-> "none"]

\* created_at and updated_at are DateTime(timezone=True) columns: aware
FromColumn(t) == [t |-> t, aware |-> TRUE]
\* datetime.now(): naive
NaiveNow(t) == [t |-> t, aware |-> FALSE]
\* a - b on datetimes raises TypeError when exactly one of them is aware
Subtractable(a, b) == a.aware = b.aware

\* order_by(MetricDataPoint.date.desc()).limit(1), result.first()
LatestRow(rows) == CHOOSE r \in rows : \A q \in rows : q.date <= r.date

\* check_metric_freshness: the dict returned; dbOk says whether the query worked
CheckFreshnessOutcome(rows, now, dbOk) ==
    IF ~dbOk THEN [status |-> "error", raised |-> "db"]
    ELSE IF rows = {} THEN [status |-> "error", raised |-> "none"]
    ELSE LET created == FromColumn(LatestRow(rows).created) IN
         IF ~Subtractable(NaiveNow(now), created)
         THEN [status |-> "error", raised |-> "TypeError"]
         ELSE [status |-> IF now - created.t > StaleDays THEN "stale" ELSE "fresh",
               raised |-> "none"]

FreshInit ==
    /\ freshRows = {}
    /\ freshNow = 0
    /\ freshWritten = 0 - 1
    /\ freshOut = NoFreshOut
    /\ freshPc = "idle"

\* a writer adds a row for a date not stored yet: server_default=func.now()
FreshInsert ==
    /\ freshPc = "idle"
    /\ \E d \in FreshDates :
         /\ ~\E r \in freshRows : r.date = d
         /\ freshRows' = freshRows \cup
                {[date |-> d, created |-> freshNow, updated |-> freshNow]}
    /\ freshWritten' = freshNow
    /\ UNCHANGED <<freshNow, freshOut, freshPc>>
    /\ UNCHANGED notFresh

\* backfill_metric writes a stored date again: on conflict it sets the
\* value, the source and updated_at
FreshUpsert ==
    /\ freshPc = "idle"
    /\ \E r \in freshRows :
         freshRows' = (freshRows \ {r}) \cup {[r EXCEPT !.updated = freshNow]}
    /\ freshWritten' = freshNow
    /\ UNCHANGED <<freshNow, freshOut, freshPc>>
    /\ UNCHANGED notFresh

FreshTick ==
    /\ freshPc = "idle"
    /\ freshNow < MaxFreshClock
    /\ freshNow' = freshNow + 1
    /\ UNCHANGED <<freshRows, freshWritten, freshOut, freshPc>>
    /\ UNCHANGED notFresh

CheckMetricFreshness ==
    /\ freshPc = "idle"
    /\ \E dbOk \in BOOLEAN : freshOut' = CheckFreshnessOutcome(freshRows, freshNow, dbOk)
    /\ freshPc' = "checked"
    /\ UNCHANGED <<freshRows, freshNow, freshWritten>>
    /\ UNCHANGED notFresh

FreshReturn ==
    /\ freshPc = "checked"
    /\ freshOut' = NoFreshOut
    /\ freshPc' = "idle"
    /\ UNCHANGED <<freshRows, freshNow, freshWritten>>
    /\ UNCHANGED notFresh

FreshNext == FreshInsert \/ FreshUpsert \/ FreshTick \/ CheckMetricFreshness \/ FreshReturn

(* ------------------------- assess_significance ------------------------ *)

HistValues == 1..5
CurrentValues == 0..6
NoSigOut == [percentile |-> 0 - 1]

RECURSIVE CountBelow(_, _)
CountBelow(values, current) ==
    IF values = <<>> THEN 0
    ELSE (IF Head(values) < current THEN 1 ELSE 0) + CountBelow(Tail(values), current)

RECURSIVE CountAtMost(_, _)
\* np.sum(values <= current)
CountAtMost(values, current) ==
    IF values = <<>> THEN 0
    ELSE (IF Head(values) <= current THEN 1 ELSE 0) + CountAtMost(Tail(values), current)

\* round(x, 1) of num / den, in tenths: the nearest tenth, a tie to the even one
RoundTenths(num, den) ==
    LET q == (10 * num) \div den
        r == (10 * num) % den
    IN IF 2 * r < den THEN q
       ELSE IF 2 * r > den THEN q + 1
       ELSE IF q % 2 = 0 THEN q ELSE q + 1

\* assess_significance: the percentile of the dict returned, in tenths
AssessSignificance(current, historical) ==
    IF Len(historical) < 2 THEN [percentile |-> 500]
    ELSE [percentile |->
            RoundTenths(CountAtMost(historical, current) * 100, Len(historical))]

SigIdle ==
    /\ sigHist = <<>>
    /\ sigCurrent = 0
    /\ sigOut = NoSigOut
    /\ sigPc = "done"

SigInit ==
    /\ sigHist \in SeqsUpTo(HistValues, MaxHist)
    /\ sigCurrent \in CurrentValues
    /\ sigOut = NoSigOut
    /\ sigPc = "input"

AssessStep ==
    /\ sigPc = "input"
    /\ sigOut' = AssessSignificance(sigCurrent, sigHist)
    /\ sigPc' = "done"
    /\ UNCHANGED <<sigHist, sigCurrent>>
    /\ UNCHANGED notSig

SigNext == AssessStep

(* ---------------- several FREDService instances at once --------------- *)

\* FREDService() is constructed by get_fred_service for a request and by
\* IncrementalUpdateService.__init__ for a sync, each with a RateLimiter of its own
Instances == {"request", "sync"}

MultiInit ==
    /\ instRequests = [i \in Instances |-> <<>>]
    /\ instAsleep = [i \in Instances |-> FALSE]
    /\ dispatched = <<>>

\* one attempt of _make_request_with_retry on instance i: acquire() on the
\* instance's own limiter, then client.get.  At the limit the caller sleeps
\* inside the locked block and the instance sends nothing more.
InstanceRequest(i) ==
    /\ ~instAsleep[i]
    /\ LET pruned == Prune(instRequests[i]) IN
         IF AtLimit(pruned)
         THEN /\ instRequests' = [instRequests EXCEPT ![i] = pruned]
              /\ instAsleep' = [instAsleep EXCEPT ![i] = TRUE]
              /\ UNCHANGED dispatched
         ELSE /\ instRequests' = [instRequests EXCEPT ![i] = Append(pruned, 0)]
              /\ dispatched' = Append(dispatched, 0)
              /\ UNCHANGED instAsleep
    /\ UNCHANGED notMulti

\* one second passes
MultiTick ==
    /\ instRequests' = [i \in Instances |->
            [k \in 1..Len(instRequests[i]) |-> Min(instRequests[i][k] + 1, WindowSeconds)]]
    /\ dispatched' = SelectSeqBy([k \in 1..Len(dispatched) |-> dispatched[k] + 1], WindowSeconds)
    /\ UNCHANGED instAsleep
    /\ UNCHANGED notMulti

MultiNext == (\E i \in Instances : InstanceRequest(i)) \/ MultiTick

(* --------------------------- backfill_metric --------------------------- *)

\* what can go wrong in a batch: nothing, an execute that raises at a point,
\* a commit that raises, a cancellation at a point
BatchFaults == {"none", "execute", "commit", "cancel"}

\* batch = data_points[i:i + batch_size], for the batch after done batches
BatchOf(data, done) ==
    SubSeq(data, done * BatchSize + 1, Min((done + 1) * BatchSize, Len(data)))

RollbackKeepsPending(committed, pending) == pending
\* await db.rollback(), or the transaction of a cancelled call that is never
\* committed: the table is as the last commit left it
Rollback(committed, pending) == committed

BackfillIdle ==
    /\ bfData = <<>>
    /\ bfDone = 0
    /\ bfPc = "idle"
    /\ bfStart = {}

\* backfill_metric up to the loop over the batches; an empty list returns
BackfillStart ==
    /\ bfPc = "idle"
    /\ \E data \in SeqsUpTo(MetricPoints, MaxBackfill) :
         /\ bfData' = data
         /\ bfPc' = IF data = <<>> THEN "done" ELSE "running"
    /\ bfDone' = 0
    /\ bfStart' = metricRows
    /\ UNCHANGED metricRows
    /\ UNCHANGED notBackfillRun

\* one turn of "for i in range(0, len(data_points), batch_size)": the points
\* up to the fault are executed in the open transaction, then the batch is
\* committed, or the transaction is rolled back and the exception raised
BackfillStep ==
    /\ bfPc = "running"
    /\ LET batch == BatchOf(bfData, bfDone) IN
       \E fault \in BatchFaults, j \in 1..Len(batch) :
         LET pending == UpsertBatch(metricRows, "DFF",
                            SubSeq(batch, 1, IF fault \in {"none", "commit"}
                                             THEN Len(batch) ELSE j - 1), "FRED")
         IN /\ (fault \in {"none", "commit"} => j = 1)
            /\ IF fault = "none"
               THEN /\ metricRows' = pending
                    /\ bfDone' = bfDone + 1
                    /\ bfPc' = IF (bfDone + 1) * BatchSize >= Len(bfData)
                               THEN "done" ELSE "running"
               ELSE /\ metricRows' = Rollback(metricRows, pending)
                    /\ bfPc' = IF fault = "cancel" THEN "cancelled" ELSE "failed"
                    /\ UNCHANGED bfDone
    /\ UNCHANGED <<bfData, bfStart>>
    /\ UNCHANGED notBackfillRun

\* the caller has taken the counts or the exception
BackfillReturn ==
    /\ bfPc \in {"done", "failed", "cancelled"}
    /\ bfData' = <<>>
    /\ bfDone' = 0
    /\ bfPc' = "idle"
    /\ bfStart' = {}
    /\ UNCHANGED metricRows
    /\ UNCHANGED notBackfillRun

BackfillNext == BackfillStart \/ BackfillStep \/ BackfillReturn

(* ------------------ two overlapping update_metric_since_last ---------- *)

\* two calls for the same series, each with its own session, as from the
\* scheduler's refresh and an admin's request
Syncers == {"scheduled", "manual"}

\* the lists the upstream answers the two with: the latest days
PairPayloads ==
    {{[date |-> d, value |-> up[d]] : d \in {x \in FredDays : up[x] # NoObs}} :
        up \in [FredDays -> Values \cup {NoObs}]}

PairInputs ==
    {[fetch |-> "error", data |-> {}, commitOk |-> TRUE]}
    \cup {[fetch |-> "data", data |-> UpstreamAnswer(P, SyncRequest("DFF")), commitOk |-> ok] :
            P \in PairPayloads, ok \in BOOLEAN}

PairInit ==
    /\ pairPc = [t \in Syncers |-> "idle"]
    /\ pairLast = [t \in Syncers |-> NoDate]
    /\ pairIn = [t \in Syncers |-> NoIn]
    /\ pairResult = [t \in Syncers |-> NoSyncResult]

\* update_metric_since_last up to the await of fetch_historical
PairStart(t) ==
    /\ pairPc[t] = "idle"
    /\ \E tod \in {0, 1}, selectOk \in BOOLEAN :
         pairLast' = [pairLast EXCEPT ![t] = LastDate(metricRows, "DFF", tod, selectOk)]
    /\ pairPc' = [pairPc EXCEPT ![t] = "fetch"]
    /\ UNCHANGED <<metricRows, pairIn, pairResult>>
    /\ UNCHANGED notPairRun

\* the rest of the call, from the return of fetch_historical to the commit,
\* or through the except block, where db.rollback() works or raises
PairComplete(t) ==
    /\ pairPc[t] = "fetch"
    /\ \E in \in PairInputs, rollbackOk \in BOOLEAN :
         LET out == SyncOutcome(metricRows, "DFF", pairLast[t], in) IN
           /\ pairIn' = [pairIn EXCEPT ![t] = in]
           /\ pairResult' = [pairResult EXCEPT ![t] =
                  SyncResultOf(metricRows, "DFF", pairLast[t], in, rollbackOk)]
           /\ metricRows' = out.rows
    /\ pairPc' = [pairPc EXCEPT ![t] = "done"]
    /\ UNCHANGED pairLast
    /\ UNCHANGED notPairRun

\* both callers have taken their results
PairFinish ==
    /\ \A t \in Syncers : pairPc[t] = "done"
    /\ pairPc' = [t \in Syncers |-> "idle"]
    /\ pairLast' = [t \in Syncers |-> NoDate]
    /\ pairIn' = [t \in Syncers |-> NoIn]
    /\ pairResult' = [t \in Syncers |-> NoSyncResult]
    /\ UNCHANGED metricRows
    /\ UNCHANGED notPairRun

PairNext ==
    \/ \E t \in Syncers : PairStart(t)
    \/ \E t \in Syncers : PairComplete(t)
    \/ PairFinish

(* ---------------------------- generate_alerts -------------------------- *)

AlertValues == {1, 2, 3}
AlertCurrents == {0, 1, 2, 3, 4}
\* changes["vs_yesterday"] in percent, beyond and within the 5% threshold
MoveInputs == {0 - 6, 0, 5, 6}
\* significance: no outlier, or an outlier with a z-score on either side
SignificanceInputs ==
    {[is_outlier |-> FALSE, z_score |-> 0],
     [is_outlier |-> TRUE, z_score |-> 3],
     [is_outlier |-> TRUE, z_score |-> 0 - 3]}

AlertInputs ==
    [current : AlertCurrents, values : SeqsUpTo(AlertValues, MaxAlertHist),
     vs_yesterday : MoveInputs, reversal : BOOLEAN, significance : SignificanceInputs]

SeqMax(q) == CHOOSE x \in {q[i] : i \in 1..Len(q)} : \A i \in 1..Len(q) : q[i] <= x
SeqMin(q) == CHOOSE x \in {q[i] : i \in 1..Len(q)} : \A i \in 1..Len(q) : x <= q[i]

\* if current >= max_val: "Highest level" elif current <= min_val: "Lowest level"
LevelAlerts(current, values) ==
    IF current >= SeqMax(values) THEN <<"high">>
    ELSE IF current <= SeqMin(values) THEN <<"low">>
    ELSE <<>>

\* the alerts generate_alerts returns, in order, by kind
GenerateAlerts(in) ==
    IF in.values = <<>> THEN <<>>
    ELSE LevelAlerts(in.current, in.values)
         \o (IF in.vs_yesterday > 5 \/ in.vs_yesterday < 0 - 5 THEN <<"move">> ELSE <<>>)
         \o (IF in.reversal THEN <<"reversal">> ELSE <<>>)
         \o (IF ~in.significance.is_outlier THEN <<>>
             ELSE IF in.significance.z_score > 2 THEN <<"outlier_high">>
             ELSE IF in.significance.z_score < 0 - 2 THEN <<"outlier_low">>
             ELSE <<>>)

NoAlertIn == [current |-> 0, values |-> <<>>, vs_yesterday |-> 0, reversal |-> FALSE,
              significance |-> [is_outlier |-> FALSE, z_score |-> 0]]

AlertIdle ==
    /\ alertIn = NoAlertIn
    /\ alertOut = <<>>
    /\ alertPc = "done"

AlertInit ==
    /\ alertIn \in AlertInputs
    /\ alertOut = <<>>
    /\ alertPc = "input"

GenerateAlertsStep ==
    /\ alertPc = "input"
    /\ alertOut' = GenerateAlerts(alertIn)
    /\ alertPc' = "done"
    /\ UNCHANGED alertIn
    /\ UNCHANGED notAlert

AlertNext == GenerateAlertsStep

(* --------------------------- calculate_changes ------------------------- *)

\* vs_yesterday, vs_last_week, vs_last_month, vs_last_year
Horizons == {1, 7, 30, 365}
\* current_date, and the stored days around the four targets: the day
\* itself, a week before and after the day before, 8 and 9 days back, a week
\* after the day a month back, and 7 and 8 days before the day a year back
ChangeDay == 1000
ChangeDays == {ChangeDay + 7, ChangeDay + 6, ChangeDay, ChangeDay - 8, ChangeDay - 9,
               ChangeDay - 23, ChangeDay - 372, ChangeDay - 373}
ChangeValues == {0, 1, 2, 3}
ChangeCurrents == {1, 2, 3}

\* the rows of one metric, at most n of them: one point per day, all at midnight
RECURSIVE HistoriesUpTo(_)
HistoriesUpTo(n) ==
    IF n = 0 THEN {{}}
    ELSE HistoriesUpTo(n - 1) \cup
         {h \cup {p} : h \in HistoriesUpTo(n - 1),
                       p \in [date : ChangeDays, value : ChangeValues]}
Histories ==
    {h \in HistoriesUpTo(MaxChangeHist) : \A p, q \in h : p.date = q.date => p = q}

Dist(a, b) == IF a >= b THEN a - b ELSE b - a

\* abs((closest["date"] - target_date).days) <= 7
WithinRange(dist) == dist <= 7

ClosestEarliest(target, hist) ==
    CHOOSE p \in hist :
        /\ \A q \in hist : Dist(p.date, target) <= Dist(q.date, target)
        /\ \A q \in hist : Dist(q.date, target) = Dist(p.date, target) => p.date <= q.date
\* min(sorted_data, key=distance to target_date) over the list sorted newest
\* first: the first of the nearest, that is the latest of them
Closest(target, hist) ==
    CHOOSE p \in hist :
        /\ \A q \in hist : Dist(p.date, target) <= Dist(q.date, target)
        /\ \A q \in hist : Dist(q.date, target) = Dist(p.date, target) => q.date <= p.date

NoValue == 0 - 1
\* _find_closest_value: the value, or None
FindClosestValue(target, hist) ==
    IF hist = {} THEN NoValue
    ELSE IF WithinRange(Dist(Closest(target, hist).date, target))
         THEN Closest(target, hist).value
         ELSE NoValue

\* round(x, 2) of num / den, in hundredths: the nearest, a tie to the even one
RoundHundredths(num, den) ==
    LET q == (100 * num) \div den
        r == (100 * num) % den
    IN IF 2 * r < den THEN q
       ELSE IF 2 * r > den THEN q + 1
       ELSE IF q % 2 = 0 THEN q ELSE q + 1

\* round(((current - past_value) / past_value) * 100, 2)
PctChange(current, past) == RoundHundredths((current - past) * 100, past)

CalculateChanges(current, hist) ==
    [h \in Horizons |->
        IF hist = {} THEN 0
        ELSE LET past == FindClosestValue(ChangeDay - h, hist) IN
             IF past # NoValue /\ past # 0 THEN PctChange(current, past) ELSE 0]

NoChangeOut == [h \in Horizons |-> 0]

ChangeIdle ==
    /\ changeIn = [current |-> 0, hist |-> {}]
    /\ changeOut = NoChangeOut
    /\ changePc = "done"

ChangeInit ==
    /\ changeIn \in [current : ChangeCurrents, hist : Histories]
    /\ changeOut = NoChangeOut
    /\ changePc = "input"

CalculateChangesStep ==
    /\ changePc = "input"
    /\ changeOut' = CalculateChanges(changeIn.current, changeIn.hist)
    /\ changePc' = "done"
    /\ UNCHANGED changeIn
    /\ UNCHANGED notChange

ChangeNext == CalculateChangesStep

(* --------------------------- specifications --------------------------- *)

\* the limiter and the client, the store left alone
\* the cache before any read, of a service constructed without a client
CacheIdle ==
    /\ CacheInit
    /\ redis = FALSE

\* the components further down, before their first operation
MoreIdle == SyncAllInit /\ InvInit /\ GapIdle /\ FreshInit /\ SigIdle /\ MultiInit /\ BackfillIdle /\ PairInit /\ AlertIdle /\ ChangeIdle /\ RefreshIdle
\* the limiter, the client, the tables, the parser and the cache at their start
BaseIdle == RLInit /\ StoreInit /\ UpsertInit /\ ParseIdle /\ CacheIdle

Init == RLInit /\ StoreInit /\ UpsertInit /\ ParseIdle /\ CacheIdle /\ MoreIdle

Next == RLNext

Spec == Init /\ [][Next]_vars

\* asyncio runs every ready task and the clock never stops
FairSpec ==
    /\ Spec
    /\ WF_vars(Tick)
    /\ \A p \in Procs : WF_vars(ProcStep(p))

\* the store and its writers, the limiter left alone
StoreSpec == Init /\ [][StoreNext]_vars

\* the fred_data_points table and its writer
UpsertSpec == Init /\ [][UpsertNext]_vars

\* the processing of one upstream payload, for every payload
ParseStart == RLInit /\ StoreInit /\ UpsertInit /\ ParseInit /\ CacheIdle /\ MoreIdle
ParseSpec == ParseStart /\ [][ParseNext]_vars

\* the reads through the cache, with and without a cache client
CacheStart == RLInit /\ StoreInit /\ UpsertInit /\ ParseIdle /\ CacheInit /\ MoreIdle

\* the reads through the cache and invalidate_cache
InvalidateSpec == CacheStart /\ [][InvalidateNext]_vars

\* check_data_gaps on every set of stored days
GapStart == BaseIdle /\ SyncAllInit /\ InvInit /\ GapInit /\ FreshInit /\ SigIdle /\ MultiInit /\ BackfillIdle /\ PairInit /\ AlertIdle /\ ChangeIdle /\ RefreshIdle
GapSpec == GapStart /\ [][GapNext]_vars

\* assess_significance on every history and current value
SigStart == BaseIdle /\ SyncAllInit /\ InvInit /\ GapIdle /\ FreshInit /\ SigInit /\ MultiInit /\ BackfillIdle /\ PairInit /\ AlertIdle /\ ChangeIdle /\ RefreshIdle
SigSpec == SigStart /\ [][SigNext]_vars

\* writes to one metric, the clock and the freshness check
FreshSpec == Init /\ [][FreshNext]_vars

\* the limiters of the instances that are live at the same time
MultiSpec == Init /\ [][MultiNext]_vars

\* backfill_metric, batch by batch, with its failures
BackfillSpec == Init /\ [][BackfillNext]_vars

\* two syncs of one series in any interleaving
PairSpec == Init /\ [][PairNext]_vars

\* generate_alerts on every input
AlertStart == BaseIdle /\ SyncAllInit /\ InvInit /\ GapIdle /\ FreshInit /\ SigIdle /\ MultiInit /\ BackfillIdle /\ PairInit /\ AlertInit /\ ChangeIdle /\ RefreshIdle
AlertSpec == AlertStart /\ [][AlertNext]_vars

\* calculate_changes on every history and current value
ChangeStart == BaseIdle /\ SyncAllInit /\ InvInit /\ GapIdle /\ FreshInit /\ SigIdle /\ MultiInit /\ BackfillIdle /\ PairInit /\ AlertIdle /\ ChangeInit /\ RefreshIdle
ChangeSpec == ChangeStart /\ [][ChangeNext]_vars

\* every writer of the two tables, in any interleaving
WriteSpec == CacheStart /\ [][WriteNext]_vars

\* a fetch_historical of the API and a refresh_metric, overlapping
RefreshNext ==
    ReadHistorical \/ ReadUpstream \/ ReadStore \/ ReadReturn
        \/ RefreshStart \/ RefreshFetched \/ RefreshSetCache \/ RefreshMetric
RefreshSpec == CacheStart /\ [][RefreshNext]_vars

\* update_all_metrics, called again and again, and the backfill script
SyncAllSpec == Init /\ [][SyncAllNext]_vars
CacheSpec == CacheStart /\ [][CacheNext]_vars

(* ---------------- claims about the limiter and the client ------------- *)

Is4xxNot429(r) == r.kind = "response" /\ 400 <= r.status /\ r.status < 500 /\ r.status # 429

\* C1: no trailing window of WindowSeconds seconds holds more than MaxRequests
\* completed acquisitions, and the recorded timestamp list never holds more
\* than MaxRequests entries younger than the window.
C1_RateLimitBound ==
    /\ Len(recent) <= MaxRequests
    /\ Cardinality({i \in 1..Len(requests) : requests[i] < WindowSeconds}) <= MaxRequests

\* C1 witness: the window is full and a further caller has been held back.
C1_Witness ==
    /\ Len(recent) = MaxRequests
    /\ \E p \in Procs : pc[p] = "rl_sleep"

\* C2 (as claimed): every acquire() call eventually returns, the clock advancing
\* and every ready caller being scheduled.
C2_AcquireReturns == \A p \in Procs : (pc[p] = "acquire") ~> (pc[p] = "http")

\* C3: a call that has only ever been answered HTTP 500 never returns data,
\* issues no more than MaxRetries + 1 requests, and ends, after exactly
\* MaxRetries + 1 requests, with an error carrying the 5xx status.
C3_RetryTermination ==
    \A p \in Procs :
        (only500[p] /\ httpCount[p] > 0) =>
            /\ httpCount[p] <= MaxRetries + 1
            /\ pc[p] # "returned"
            /\ (httpCount[p] = MaxRetries + 1 => pc[p] = "failed")
            /\ (pc[p] = "failed" =>
                    /\ httpCount[p] = MaxRetries + 1
                    /\ result[p] = [kind |-> "error", status |-> 500])

\* C3 witness: a call has failed after MaxRetries + 1 answers, all of them 500.
C3_Witness ==
    \E p \in Procs : pc[p] = "failed" /\ only500[p] /\ httpCount[p] = MaxRetries + 1

\* C4: once a request is answered with a 4xx status other than 429 the call
\* has failed with that status: it is not sleeping for a backoff, and the
\* answered request is the last one of the call (the first request answered
\* so makes exactly one attempt).
C4_ClientErrorNotRetried ==
    \A p \in Procs :
        Is4xxNot429(lastResp[p]) =>
            /\ pc[p] = "failed"
            /\ result[p] = [kind |-> "error", status |-> lastResp[p].status]
            /\ httpCount[p] = attempt[p] + 1
            /\ sleepLeft[p] = 0

\* C4 witness: a call failed on its first and only request, answered 404.
C4_Witness ==
    \E p \in Procs :
        /\ pc[p] = "failed"
        /\ Is4xxNot429(lastResp[p])
        /\ httpCount[p] = 1

(* ----------------------- claims about the sync ------------------------ *)

\* the step in which task t's sync runs from the fetch result to its return
SyncCompletes(t) == syncPc[t] = "fetch" /\ syncPc'[t] = "done"

\* the observations stored for series c, as the upstream states them
StoredObs(rows, c) == {[date |-> r.date, value |-> r.value] : r \in RowsOf(rows, c)}

\* C6 (as claimed): a sync of a series with no stored rows that is given a
\* non-empty upstream list stores every observation of the list and returns
\* status success with count equal to the length of the list.
C6_SyncEmptyStoresAll ==
    [][\A t \in Tasks :
        (/\ SyncCompletes(t)
         /\ RowsOf(metricRows, syncCode[t]) = {}
         /\ syncIn'[t].fetch = "data"
         /\ syncIn'[t].data # {}
         /\ syncIn'[t].commitOk)
        => /\ syncResult'[t] = [status |-> "success", count |-> Cardinality(syncIn'[t].data)]
           /\ StoredObs(metricRows', syncCode[t]) = syncIn'[t].data]_vars

\* C6 (amended): a sync of a series with no stored rows that is given a
\* non-empty upstream list, and whose commit works, stores exactly the
\* observations of the list dated strictly after now - 365 days, one row each,
\* and returns status success with count equal to their number.
C6_SyncEmptyStoresLastYear ==
    [][\A t \in Tasks :
        (/\ SyncCompletes(t)
         /\ RowsOf(metricRows, syncCode[t]) = {}
         /\ syncIn'[t].fetch = "data"
         /\ syncIn'[t].data # {}
         /\ syncIn'[t].commitOk)
        => LET kept == {o \in syncIn'[t].data : 2 * o.date > syncLast[t].t} IN
           /\ syncLast[t].t \in {2 * (Today - YearDays), 2 * (Today - YearDays) + 1}
           /\ syncResult'[t] = [status |-> "success", count |-> Cardinality(kept)]
           /\ StoredObs(metricRows', syncCode[t]) = kept
           /\ Cardinality(RowsOf(metricRows', syncCode[t])) = Cardinality(kept)]_vars

\* C6 witness: a sync of an empty series has stored the recent observations
\* of a list that also held observations a year old or older.
C6_Witness ==
    \E t \in Tasks :
        /\ syncPc[t] = "done"
        /\ ~syncLast[t].aware
        /\ syncIn[t].fetch = "data"
        /\ syncResult[t].status = "success"
        /\ syncResult[t].count >= 1
        /\ syncResult[t].count < Cardinality(syncIn[t].data)
        /\ Cardinality(RowsOf(metricRows, syncCode[t])) = syncResult[t].count
        /\ \E o \in syncIn[t].data : o.date = Today - YearDays

\* C7 (as claimed): a sync of a series whose stored rows have watermark w,
\* given an upstream list, writes exactly the observations of the list dated
\* strictly after w, returns count equal to their number and leaves the rows
\* it found as they were.
C7_SyncWritesOnlyNewer ==
    [][\A t \in Tasks :
        (/\ SyncCompletes(t)
         /\ RowsOf(metricRows, syncCode[t]) # {}
         /\ syncLast[t] = GetLastDate(metricRows, syncCode[t], TRUE)
         /\ syncIn'[t].fetch = "data"
         /\ syncIn'[t].commitOk)
        => LET w == SetMax({r.date : r \in RowsOf(metricRows, syncCode[t])})
               newer == {o \in syncIn'[t].data : o.date > w} IN
           /\ metricRows \subseteq metricRows'
           /\ StoredObs(metricRows' \ metricRows, syncCode[t]) = newer
           /\ syncResult'[t].count = Cardinality(newer)]_vars

(* ---------------------- claims about the upsert ----------------------- *)

\* the value stored per (series, date)
KeyValues(rows) == {<<r.series_id, r.date, r.value>> : r \in rows}

\* C5: a _store_data_points call that is given the batch of the call before
\* it leaves the table with the same number of rows and the same value per
\* (series, date) as that call left it.
C5_UpsertIdempotent ==
    [][repeated' =>
          /\ Cardinality(fredRows') = Cardinality(fredRows)
          /\ KeyValues(fredRows') = KeyValues(fredRows)
          /\ lastCount' = lastCount]_vars

\* C5 witness: a batch that names one (series, date) twice with different
\* values has been applied twice in a row, and the table holds one row for
\* it, with the later value.
C5_Witness ==
    /\ repeated
    /\ Len(lastBatch) = 2
    /\ lastBatch[1].date = lastBatch[2].date
    /\ lastBatch[1].date # BadDate
    /\ ToNumeric(lastBatch[1].value) # ToNumeric(lastBatch[2].value)
    /\ lastCount = 2
    /\ {r \in fredRows : r.date = lastBatch[2].date} =
           {[series_id |-> lastBatch[2].series_id, date |-> lastBatch[2].date,
             value |-> ToNumeric(lastBatch[2].value),
             fetched_at |-> lastBatch[2].fetched_at, n |-> 1]}

(* ------------------ claims about payload processing ------------------- *)

\* the strings of the alphabet that denote a number: an optional sign, then
\* digits with an optional point before, between or after them
DigitStrings == {ds \in SeqsUpTo(Digits, MaxStrLen) : TRUE}
NumberStrings ==
    {str \in ValueStrings :
        \E sign \in {<<>>, <<"-">>}, a \in DigitStrings, b \in DigitStrings :
            /\ Len(a) + Len(b) > 0
            /\ str \in {sign \o a \o b, sign \o a \o <<".">> \o b}}

RECURSIVE DatesWhere(_, _)
\* the dates of the observations of obs whose value is in S, in order
DatesWhere(obs, S) ==
    IF obs = <<>> THEN <<>>
    ELSE IF Head(obs).value \in S THEN <<Head(obs).date>> \o DatesWhere(Tail(obs), S)
    ELSE DatesWhere(Tail(obs), S)

ParsedDates == [i \in 1..Len(parsed) |-> parsed[i].date]

\* C10 (as claimed): the processed list holds exactly the dates of the
\* payload whose value is not the sentinel ".".
C10_ExactlyNonSentinel ==
    parsePc = "done" => ParsedDates = DatesWhere(payload, ValueStrings \ {Sentinel})

\* C10 (amended): the processed list holds, in payload order, exactly the
\* dates of the payload whose value is a string that denotes a number; a date
\* whose value is the sentinel ".", null or any other string that float
\* rejects does not appear, with no value at all.
C10_ExactlyNumeric ==
    parsePc = "done" =>
        /\ ParsedDates = DatesWhere(payload, NumberStrings)
        /\ \A i \in 1..Len(payload) :
              payload[i].value \in {Sentinel, NullValue} =>
                  \A j \in 1..Len(parsed) : parsed[j].date # payload[i].date

\* C10 witness: a payload with a sentinel first and a number after it has
\* been processed, and only the number's date has come through.
C10_Witness ==
    /\ parsePc = "done"
    /\ Len(payload) = 2
    /\ payload[1].value = Sentinel
    /\ payload[2].value = <<"1", ".">>
    /\ parsed = <<[date |-> payload[2].date, value |-> Pow10(MaxStrLen)]>>

(* ----------------------- claims about the cache ----------------------- *)

\* the request a read stands for, and the key its entries live under
RequestId(req) ==
    IF req.op = "historical" THEN <<"historical", req.sid, req.range.start, req.range.end>>
    ELSE <<"current", "all", NoDay, NoDay>>
RequestKey(req) == <<"fred">> \o RequestId(req)

ReadDone == readPc = "done"

SameAsDirect ==
    /\ readResult.kind = readDirect.kind
    /\ readResult.err = readDirect.err
    /\ readResult.data = readDirect.data

\* C8 (as claimed): whatever the cache holds, a read with the cache enabled
\* returns the data the same read returns from the upstream alone.
C8_CacheNeverChangesData ==
    (ReadDone /\ readReq.useCache /\ redis) => SameAsDirect

\* C8 (amended): a read that hits returns, unchanged, the data of the entry
\* under its own request (series and date range), and writes nothing; every
\* other read returns what the upstream fetch yields, and an entry it writes
\* is under its own request and decodes to exactly that data.  So a hit can
\* differ from the direct read only by what the upstream has changed since
\* the entry was written.
C8_HitReturnsWhatWasFetched ==
    [][(~ReadDone /\ ReadDone') =>
          LET key == RequestKey(readReq')
              op == readReq'.op
          IN IF readHit' # NoEntry
             THEN /\ readReq'.useCache /\ redis
                  /\ readHit' = cache[key]
                  /\ readHit'.by = RequestId(readReq')
                  /\ readResult'.kind = "data"
                  /\ readResult'.data = JsonLoads(op, readHit'.text)
                  /\ cache' = cache
             ELSE /\ SameAsDirect'
                  /\ cache' # cache =>
                        /\ readReq'.useCache /\ redis
                        /\ \A k \in CacheKeys : k # key => cache'[k] = cache[k]
                        /\ cache'[key].by = RequestId(readReq')
                        /\ JsonLoads(op, cache'[key].text) = readDirect'.data]_vars

\* C8 witness: a fetch_historical over a date range has hit an entry whose
\* data is no longer what the upstream returns.
C8_Witness ==
    /\ ReadDone
    /\ readReq.op = "historical"
    /\ readReq.range.start = Today
    /\ readHit # NoEntry
    /\ readResult.data # <<>>
    /\ readDirect.kind = "data"
    /\ readDirect.data = <<>>

\* C9: a read with caching requested, made without a cache client or during
\* which get, ttl or setex raised, returns (or raises) exactly what the
\* upstream fetch yields, and raises no error of the cache.
C9_CacheFailureDegrades ==
    (ReadDone /\ readReq.useCache /\ (~redis \/ readFailed # {})) =>
        /\ readResult.err # "cache"
        /\ ~readResult.cached
        /\ SameAsDirect

\* C9 witness: ttl raised on an entry that get had found and setex raised
\* afterwards, and the read has returned the upstream's observations.
C9_Witness ==
    /\ ReadDone
    /\ redis
    /\ readReq.useCache
    /\ readFailed = {"ttl", "setex"}
    /\ readResult.kind = "data"
    /\ readResult.data # <<>>

(* ------------------- claims about update_all_metrics ------------------ *)

\* C11: every turn of the loop of update_all_metrics, whatever happens to its
\* series, moves on to the next config, gives that series an entry of status
\* success or error, leaves the entries and the stored rows of the other
\* series as they were, and writes nothing when the entry is an error; when
\* the call returns, every configured series has its entry.
C11_SyncAllIsolatesFailures ==
    /\ [](allIdx = AllDone =>
             \A c \in AllCodes : allResults[c].status \in {"success", "error"})
    /\ [][(allIdx \in 1..Len(AllConfigs) /\ allIdx' # allIdx) =>
             LET c == AllConfigs[allIdx] IN
             /\ allIdx' = allIdx + 1
             /\ allResults'[c].status \in {"success", "error"}
             /\ \A d \in AllCodes \ {c} :
                   /\ allResults'[d] = allResults[d]
                   /\ RowsOf(metricRows', d) = RowsOf(metricRows, d)
             /\ allResults'[c].status = "error" => metricRows' = metricRows
             /\ metricRows \subseteq metricRows']_vars

\* C11 witness: the call is about to return; the first series failed, the
\* second stored rows, the last failed, and the rows of the second are there.
C11_Witness ==
    /\ allIdx = AllDone
    /\ allResults["FEDFUNDS"].status = "error"
    /\ allResults["DFF"].status = "success"
    /\ allResults["DFF"].count >= 1
    /\ allResults["GDP"].status = "error"
    /\ Cardinality(RowsOf(metricRows, "DFF")) = allResults["DFF"].count
    /\ RowsOf(metricRows, "GDP") = {}

(* ------------------- claims about a sync with nothing new ------------- *)

\* C12 (as claimed): a sync whose fetch returns a list with no observation
\* dated after the watermark of the call, the empty list included, returns
\* status success with count 0 and leaves the table as it was.
C12_NothingNewIsSuccess ==
    [][\A t \in Tasks :
        (/\ SyncCompletes(t)
         /\ syncIn'[t].fetch = "data"
         /\ {o \in syncIn'[t].data : 2 * o.date > syncLast[t].t} = {})
        => /\ syncResult'[t] = [status |-> "success", count |-> 0]
           /\ metricRows' = metricRows]_vars

(* ------------------- claims about the stored rows --------------------- *)

\* C13: whatever the writers do and however they interleave, each table
\* holds at most one row per (series, date).
C13_UniquePerSeriesDate ==
    /\ \A r1 \in metricRows, r2 \in metricRows :
          (r1.code = r2.code /\ r1.date = r2.date) => r1 = r2
    /\ \A r1 \in fredRows, r2 \in fredRows :
          (r1.series_id = r2.series_id /\ r1.date = r2.date) => r1 = r2

\* C13 witness: a sync that read its watermark from the empty table has tried
\* to insert a date another writer stored in between, and ended in error.
C13_Witness ==
    \E t \in Tasks :
        /\ syncPc[t] = "done"
        /\ ~syncLast[t].aware
        /\ syncIn[t].fetch = "data"
        /\ syncIn[t].commitOk
        /\ syncResult[t].status = "error"
        /\ \E o \in syncIn[t].data :
              /\ 2 * o.date > syncLast[t].t
              /\ HasConflict(metricRows, syncCode[t], o.date)

(* ----------------------- claims about invalidation -------------------- *)

\* C14 (as claimed): when invalidate_cache(S) returns and redis has answered,
\* no entry holding data of S that was written before the call is still in
\* the cache, and the count it returns is the number of keys it removed.
C14_InvalidateRemovesSeries ==
    [][(inv.pc # "done" /\ inv'.pc = "done" /\ inv'.by = "invalidate_cache"
            /\ inv'.ok /\ redis /\ inv'.sid # "") =>
          /\ \A k \in inv'.held : ~EntryHolds(cache'[k], inv'.sid)
          /\ inv'.count = inv'.removed]_vars

(* ----------------------- claims about check_data_gaps ----------------- *)

\* the stored days inside the window, and the pairs of neighbours among them
\* that are more than one day apart
WindowDays == {d \in gapDates : 2 * d >= 2 * (Today - DaysToCheck) + gapTod}
NeighbourGaps ==
    {[start |-> a, end |-> b, days |-> b - a] : a \in WindowDays, b \in WindowDays} \cap
    {g \in [start : WindowDays, end : WindowDays, days : 2..(GapSpan + 1)] :
        /\ g.start < g.end
        /\ ~\E c \in WindowDays : g.start < c /\ c < g.end}

\* C15: a check_data_gaps whose query worked reports exactly the pairs of
\* neighbouring stored days inside the window that are more than one day
\* apart, each once with its day difference, in ascending order.
C15_GapsExactlyNeighbours ==
    (gapPc = "done" /\ ~gapOut.error) =>
        /\ {gapOut.gaps[i] : i \in 1..Len(gapOut.gaps)} = NeighbourGaps
        /\ Len(gapOut.gaps) = Cardinality(NeighbourGaps)
        /\ \A i \in 1..(Len(gapOut.gaps) - 1) : gapOut.gaps[i].end <= gapOut.gaps[i + 1].start
        /\ gapOut.has_gaps = (NeighbourGaps # {})

\* C15 witness: days 1, 2 and 5 of a window are stored and the report is the
\* one gap from day 2 to day 5, 3 days.
C15_Witness ==
    /\ gapPc = "done"
    /\ gapDates = {Today - 4, Today - 3, Today}
    /\ gapOut.gaps = <<[start |-> Today - 3, end |-> Today, days |-> 3]>>
    /\ gapOut.data_points = 3

(* -------------------- claims about check_metric_freshness ------------- *)

\* C16: a freshness check of a metric with rows whose query worked reports
\* stale exactly when the last write to the metric is more than StaleDays
\* old, and fresh otherwise; right after a write it reports fresh.
C16_StaleIffLastWriteOld ==
    (freshPc = "checked" /\ freshRows # {} /\ freshOut.raised # "db") =>
        freshOut.status = (IF freshNow - freshWritten > StaleDays THEN "stale" ELSE "fresh")

\* C17: a freshness check of a metric without rows whose query worked
\* reports no_data; every check that did not fail reports fresh, stale
\* or no_data.
C17_EmptyIsNoData ==
    (freshPc = "checked" /\ freshOut.raised # "db") =>
        /\ freshOut.status \in {"fresh", "stale", "no_data"}
        /\ freshRows = {} => freshOut.status = "no_data"

(* --------------------- claims about assess_significance --------------- *)

\* the number of historical values at or below the current one
AtOrBelow == Cardinality({i \in 1..Len(sigHist) : sigHist[i] <= sigCurrent})

\* C18 as stated: for every non-empty history the percentile is exactly
\* 100 * (values at or below current) / (values).
C18_PercentileIsFraction ==
    (sigPc = "done" /\ Len(sigHist) >= 1) =>
        sigOut.percentile * Len(sigHist) = 1000 * AtOrBelow

\* C18: for a history of at least two values the percentile is
\* 100 * (values at or below current) / (values) to the nearest tenth, so 100
\* when current is at or above every value; for a shorter history it is 50.
C18_PercentileIsRoundedFraction ==
    sigPc = "done" =>
        /\ Len(sigHist) >= 2 =>
             /\ 2 * (sigOut.percentile * Len(sigHist) - 1000 * AtOrBelow) <= Len(sigHist)
             /\ 2 * (1000 * AtOrBelow - sigOut.percentile * Len(sigHist)) <= Len(sigHist)
             /\ (\A i \in 1..Len(sigHist) : sigHist[i] <= sigCurrent) => sigOut.percentile = 1000
        /\ Len(sigHist) < 2 => sigOut.percentile = 500

\* C18 witness: history [1,2,3,4,5] and current 5 give 100.
C18_Witness ==
    /\ sigPc = "done"
    /\ sigHist = <<1, 2, 3, 4, 5>>
    /\ sigCurrent = 5
    /\ sigOut.percentile = 1000

(* --------------- claims about fetch_historical of an unknown series ---- *)

\* C19: fetch_historical of a series that is not in SERIES_METADATA raises
\* the unknown-series error having taken no limiter slot, sent no request
\* and neither read nor written the cache, whose content stays as it was.
C19_UnknownSeriesFailsFirst ==
    /\ []((readReq.op = "historical" /\ readReq.sid \notin TrackedSeries) =>
            /\ readResult = RaisedResult("unknown_series")
            /\ readOps = {})
    /\ [][(readReq = NoRead /\ readReq'.op = "historical"
                /\ readReq'.sid \notin TrackedSeries) => cache' = cache]_vars

\* C19 witness: with a cache client and an entry in the cache, a read of
\* GDP through the cache has raised and done nothing.
C19_Witness ==
    /\ readReq.op = "historical"
    /\ readReq.sid = "GDP"
    /\ readReq.useCache
    /\ redis
    /\ \E k \in CacheKeys : cache[k] # NoEntry
    /\ readResult = RaisedResult("unknown_series")
    /\ readOps = {}

(* ------------------ claims about the error after the retries ---------- *)

\* the status codes of the errors that are not retried: 4xx other than 429
IsClientErrorStatus(s) == 400 <= s /\ s < 500 /\ s # 429

\* C20: the error raised when the last allowed attempt ended in a 5xx, a 429
\* or a timeout never carries a status code of the class of the errors that
\* are not retried (4xx other than 429, where the unknown series' 400 lies).
C20_ExhaustionNotClientError ==
    \A p \in Procs :
        (/\ pc[p] = "failed"
         /\ attempt[p] = MaxRetries
         /\ \/ lastResp[p].kind = "timeout"
            \/ lastResp[p].kind = "response" /\ IsRetryableStatus(lastResp[p].status))
        => ~IsClientErrorStatus(result[p].status)

(* ------------------- claims about the request of a sync --------------- *)

\* the first day a sync should ask for: the day after the watermark, or a
\* year back when the series has no rows (syncLast is then now - 365 days)
WindowStart(last) == IF last.aware THEN (last.t \div 2) + 1 ELSE Today - YearDays

\* C21: the request of a sync asks for the days from the day after the
\* watermark to today, bypasses the cache, and is answered with no
\* observation from before that window.
C21_SyncRequestsOnlyNew ==
    \A t \in Tasks :
        LET req == SyncRequest(syncCode[t]) IN
        /\ syncPc[t] = "fetch" =>
             /\ req.start_date = WindowStart(syncLast[t])
             /\ req.end_date = Today
             /\ ~req.use_cache
        /\ (syncPc[t] = "done" /\ syncIn[t].fetch = "data") =>
             \A o \in syncIn[t].data : o.date >= WindowStart(syncLast[t])

(* --------------------- more claims about the limiter ------------------ *)

\* C22: no caller of acquire() sleeps for a slot while it holds the lock.
C22_NoSleepHoldingLock ==
    \A p \in Procs : ~(pc[p] = "rl_sleep" /\ lockOwner = p)

\* C23: over all FREDService instances together, no trailing window of
\* WindowSeconds seconds holds more than MaxRequests dispatched requests.
C23_ProcessRateBound == Len(dispatched) <= MaxRequests

(* --------------------- more claims about the client ------------------- *)

\* C24: a call has sent at most as many HTTP requests as acquire() calls it
\* has completed, and it is about to send one exactly when it has completed
\* one acquire() more than it has sent requests.
C24_AttemptAfterOwnAcquire ==
    \A p \in Procs :
        /\ httpCount[p] <= acqCount[p]
        /\ acqCount[p] <= httpCount[p] + 1
        /\ (pc[p] = "http") = (acqCount[p] = httpCount[p] + 1)

\* C24 witness: a call is about to send its second request, after a second
\* completed acquire().
C24_Witness ==
    \E p \in Procs : pc[p] = "http" /\ httpCount[p] = 1 /\ acqCount[p] = 2

\* C25: a call sends at most MaxRetries + 1 requests; while every outcome
\* was a 5xx, a 429 or a timeout it has not returned, it goes on while
\* attempts remain and has failed once the (MaxRetries + 1)-th is answered; a
\* 200 with data ends the call at once with that data.
C25_MixedRetriesBounded ==
    \A p \in Procs :
        /\ httpCount[p] <= MaxRetries + 1
        /\ (onlyTransient[p] /\ httpCount[p] > 0) =>
             /\ pc[p] # "returned"
             /\ (httpCount[p] <= MaxRetries => pc[p] # "failed")
             /\ (httpCount[p] = MaxRetries + 1 =>
                    pc[p] = "failed" /\ result[p].kind = "error")
        /\ (lastResp[p] = [kind |-> "response", status |-> 200, body |-> "data"]) =>
             /\ pc[p] = "returned"
             /\ result[p] = [kind |-> "data", status |-> 200]
             /\ httpCount[p] = attempt[p] + 1
        /\ pc[p] = "returned" =>
             lastResp[p] = [kind |-> "response", status |-> 200, body |-> "data"]

\* C25 witness: one call has failed on its (MaxRetries + 1)-th request after
\* outcomes that were a mix of 5xx, 429 and timeouts, and another has returned
\* the data of a 200 that followed a retried outcome.
C25_Witness ==
    /\ \E p \in Procs :
          /\ pc[p] = "failed"
          /\ onlyTransient[p]
          /\ ~only500[p]
          /\ httpCount[p] = MaxRetries + 1
    /\ \E q \in Procs : pc[q] = "returned" /\ httpCount[q] = 2


(* ------------------------ claims about the backfill ------------------- *)

\* the data points of the batches a backfill has committed
CommittedPrefix == SubSeq(bfData, 1, Min(bfDone * BatchSize, Len(bfData)))
\* the position of the last point for day d among them, 0 when there is none
LastFor(d) ==
    IF \E i \in 1..Len(CommittedPrefix) : CommittedPrefix[i].date = d
    THEN CHOOSE i \in 1..Len(CommittedPrefix) :
            /\ CommittedPrefix[i].date = d
            /\ \A k \in (i + 1)..Len(CommittedPrefix) : CommittedPrefix[k].date # d
    ELSE 0

\* C26: while a backfill runs and after it has failed or been cancelled,
\* the table holds for every day the value of the last point for that day in
\* the batches committed so far, or else what it held when the backfill
\* started: every committed batch in full, nothing of the batch that failed.
C26_BatchesAtomic ==
    bfPc # "idle" =>
        \A d \in FredDays :
            LET now == {r \in metricRows : r.code = "DFF" /\ r.date = d}
                was == {r \in bfStart : r.code = "DFF" /\ r.date = d}
            IN IF LastFor(d) = 0 THEN now = was
               ELSE /\ Cardinality(now) = 1
                    /\ \A r \in now : r.value = CommittedPrefix[LastFor(d)].value

\* C26 witness: the second batch failed after one of its points had been
\* executed; the first batch is in the table and that point is not.
C26_Witness ==
    /\ bfPc \in {"failed", "cancelled"}
    /\ bfDone = 1
    /\ Len(bfData) > BatchSize
    /\ bfStart = {}
    /\ \A i \in 1..BatchSize : bfData[i].date = Today - 1
    /\ bfData[BatchSize + 1].date = Today
    /\ metricRows # {}
    /\ \A r \in metricRows : r.date = Today - 1

(* --------------------- claims about overlapping syncs ----------------- *)

\* both syncs read the same watermark and were handed the same list with
\* something new in it, and neither commit was refused for another reason
SameWork ==
    /\ \A t \in Syncers : pairPc[t] = "done" /\ pairIn[t].fetch = "data" /\ pairIn[t].commitOk
    /\ \A t, u \in Syncers : pairLast[t] = pairLast[u] /\ pairIn[t].data = pairIn[u].data
    /\ \A t \in Syncers : NewData(pairIn[t].data, pairLast[t]) # {}

\* C27: two syncs of one series that read the same watermark and write the
\* same new observations both finish with status success, every new
\* observation is in the table, and each (series, date) has exactly one row.
C27_OverlappingSyncsBothSucceed ==
    SameWork =>
        /\ \A t \in Syncers : pairResult[t].status = "success"
        /\ \A t \in Syncers : \A o \in NewData(pairIn[t].data, pairLast[t]) :
               Cardinality({r \in metricRows : r.code = "DFF" /\ r.date = o.date}) = 1

(* ------------------------- claims about the alerts -------------------- *)

Emitted(kind) == \E i \in 1..Len(alertOut) : alertOut[i] = kind

\* C28: for a non-empty history generate_alerts emits the high marker
\* exactly when current >= the historical maximum and the low marker exactly
\* when current <= the historical minimum, each on its own.
C28_HighAndLowIndependent ==
    (alertPc = "done" /\ alertIn.values # <<>>) =>
        /\ Emitted("high") <=>
             \A i \in 1..Len(alertIn.values) : alertIn.current >= alertIn.values[i]
        /\ Emitted("low") <=>
             \A i \in 1..Len(alertIn.values) : alertIn.current <= alertIn.values[i]

(* ------------------------ claims about the changes -------------------- *)

\* the points of the history within 7 days of the target of horizon h
Near(h) == {p \in changeIn.hist : Dist(p.date, ChangeDay - h) <= 7}
\* p is a point of the history nearest to the target of horizon h
Nearest(p, h) ==
    \A q \in changeIn.hist : Dist(p.date, ChangeDay - h) <= Dist(q.date, ChangeDay - h)
\* no point of the history as far from the target of horizon h as p is later
\* than p
LaterOfEqual(p, h) ==
    \A q \in changeIn.hist :
        Dist(q.date, ChangeDay - h) = Dist(p.date, ChangeDay - h) => q.date <= p.date
\* the comparators of horizon h: the nearest point within 7 days of the
\* target, the later one of two equally distant points
Comparators(h) == {p \in Near(h) : Nearest(p, h) /\ LaterOfEqual(p, h)}

\* C29 as stated: the change of a horizon is 0.0 exactly when the history is
\* empty, no point lies within 7 days of the target, or the nearest point's
\* value is 0.
C29_ZeroOnlyWithoutComparator ==
    changePc = "done" =>
        \A h \in Horizons :
            changeOut[h] = 0 <=>
                \/ Near(h) = {}
                \/ \E p \in Near(h) : Nearest(p, h) /\ p.value = 0

\* C29 (amended): for every horizon the change is 0.0 when no point lies
\* within 7 days of the target (an empty history included); otherwise there
\* is exactly one comparator, the nearest point, which lies within 7 days on
\* either side and is the later one of two equally distant points, and the
\* change is computed from that point and no other: 0.0 when its value is 0,
\* else (current - past) / past * 100 rounded to two decimals, which is 0.0
\* as well when current equals past.
C29_ChangeFromNearest ==
    changePc = "done" =>
        \A h \in Horizons :
            IF Near(h) = {} THEN changeOut[h] = 0
            ELSE /\ Cardinality(Comparators(h)) = 1
                 /\ \A p \in Comparators(h) :
                        changeOut[h] = IF p.value = 0 THEN 0
                                       ELSE RoundHundredths((changeIn.current - p.value) * 100, p.value)

\* C29 witness: two points exactly 7 days from the day before, one on either
\* side and with different values, give the change from the later one
\* (200.00) and not from the earlier one, whose value is 0; the earlier one
\* is the comparator of the day a week back and gives 0.0; nothing is near
\* the days a month and a year back.
C29_Witness ==
    /\ changePc = "done"
    /\ changeIn.hist = {[date |-> ChangeDay - 8, value |-> 0],
                         [date |-> ChangeDay + 6, value |-> 1]}
    /\ changeIn.current = 3
    /\ Comparators(1) = {[date |-> ChangeDay + 6, value |-> 1]}
    /\ changeOut[1] = 20000
    /\ Comparators(7) = {[date |-> ChangeDay - 8, value |-> 0]}
    /\ changeOut[7] = 0
    /\ Near(30) = {} /\ changeOut[30] = 0
    /\ Near(365) = {} /\ changeOut[365] = 0

(* ------------------- claims about what the store keeps ---------------- *)

MetricKeys(rows) == {<<r.code, r.date>> : r \in rows}
FredKeys(rows) == {<<r.series_id, r.date>> : r \in rows}

\* C30: no step of a sync, a backfill, a refresh or a store of fetched
\* points removes a (series, date) key from either table, whether it
\* succeeds or fails, and a sync that ends in error, returned or raised,
\* leaves the table exactly as it was.
C30_KeysOnlyGrow ==
    [][/\ MetricKeys(metricRows) \subseteq MetricKeys(metricRows')
       /\ FredKeys(fredRows) \subseteq FredKeys(fredRows')
       /\ \A t \in Tasks :
            (SyncCompletes(t) /\ syncResult'[t].status \in {"error", "raised"})
                => metricRows' = metricRows]_vars

\* C30 witness: a sync whose commit failed has returned an error while the
\* table holds the rows of two days that a backfill had committed.
C30_Witness ==
    \E t \in Tasks :
        /\ syncPc[t] = "done"
        /\ syncResult[t].status = "error"
        /\ syncIn[t].fetch = "data"
        /\ ~syncIn[t].commitOk
        /\ NewData(syncIn[t].data, syncLast[t]) # {}
        /\ Cardinality(MetricKeys(metricRows)) >= 2

====
